---- MODULE Spec2Model ----
(***************************************************************************)
(* Model of src/src/semantic_personality_analyzer.py                       *)
(* (SemanticPokerPersonalityAnalyzer): the three ChromaDB collections, the *)
(* indexing of loaded game records, filtered retrieval, statistics, the    *)
(* chunked embedding aggregation and the archetype classification.         *)
(*                                                                         *)
(* Texts are sequences of characters over {"a", " "}; vectors are tuples   *)
(* of integers over a common positive denominator (exact rationals), so    *)
(* that len(), str.split(), " ".join(), np.mean and the cosine formula are *)
(* computed as the code computes them, without floating-point rounding.    *)
(***************************************************************************)
EXTENDS Integers, Sequences, FiniteSets, TLC

VARIABLES
    game_data,            \* self.game_data: the games loaded by __init__
    actions_collection,   \* "poker_actions": documents in insertion order
    chat_collection,      \* "poker_chat"
    summary_collection,   \* "poker_summaries"
    result,               \* what the last public call did and returned
    pure,                 \* inputs/outputs of the last helper-level call
    previous              \* history: what an earlier call of a tracked operation returned

vars == <<game_data, actions_collection, chat_collection, summary_collection,
          result, pure, previous>>

(***************************************************************************)
(* Bounds of the model.                                                    *)
(***************************************************************************)
MaxTokens == 1         \* max_tokens_per_chunk, scaled down from its default 4000
MaxChars == 9          \* length of " ".join(texts) for the lists of texts drawn

(***************************************************************************)
(* Generic sequence helpers.                                               *)
(***************************************************************************)
RECURSIVE SumSeq(_)
SumSeq(s) == IF s = <<>> THEN 0 ELSE Head(s) + SumSeq(Tail(s))

RECURSIVE Flatten(_)
Flatten(ss) == IF ss = <<>> THEN <<>> ELSE Head(ss) \o Flatten(Tail(ss))

Range(s) == {s[i] : i \in DOMAIN s}

Min(a, b) == IF a <= b THEN a ELSE b

Rev(s) == [i \in 1..Len(s) |-> s[Len(s) + 1 - i]]

SeqsUpTo(S, n) == UNION {[1..k -> S] : k \in 0..n}

(***************************************************************************)
(* Python strings.                                                         *)
(***************************************************************************)
Chars == {"a", " "}

Word(n) == [i \in 1..n |-> "a"]

\* str.split(): the maximal runs of non-whitespace characters, in order.
RECURSIVE SplitFrom(_, _)
SplitFrom(text, cur) ==
    IF text = <<>>
    THEN IF cur = <<>> THEN <<>> ELSE <<cur>>
    ELSE IF Head(text) = " "
         THEN (IF cur = <<>> THEN <<>> ELSE <<cur>>) \o SplitFrom(Tail(text), <<>>)
         ELSE SplitFrom(Tail(text), Append(cur, Head(text)))

Split(text) == SplitFrom(text, <<>>)

\* " ".join(parts)
RECURSIVE Join(_)
Join(parts) ==
    IF parts = <<>> THEN <<>>
    ELSE IF Len(parts) = 1 THEN parts[1]
    ELSE parts[1] \o <<" ">> \o Join(Tail(parts))

(***************************************************************************)
(* Embedding vectors.  The provider answers with a vector of Vec, or the   *)
(* call raises (ProviderError).                                            *)
(***************************************************************************)
Vec == {<<0, 0>>, <<1, 0>>, <<-1, 0>>, <<1, 1>>, <<2, 3>>}

\* The tuple that stands for a call that raised instead of answering.
ProviderError == <<"ProviderError">>

Dot(a, b) == SumSeq([i \in 1..Len(a) |-> a[i] * b[i]])

\* ChromaDB's default distance (squared L2) between two provider vectors.
Distance(a, b) == SumSeq([i \in 1..Len(a) |-> (a[i] - b[i]) * (a[i] - b[i])])

(***************************************************************************)
(* Game records (the JSON objects of data_dir) and their fields.           *)
(***************************************************************************)
Players == {"P0", "P1"}

TextA == Word(4)
TextB == Word(4) \o <<" ">> \o Word(3)
DocTexts == {TextA, TextB}

\* A file on which open() or json.load() raises.
Unreadable == [unreadable |-> TRUE]

\* dict.get(key, default)
Get(d, key, default) == IF key \in DOMAIN d THEN d[key] ELSE default

ActionEntry(p, t) ==
    [player_id |-> p, action |-> "raise", game_stage |-> "flop", amount |-> 40,
     text_description |-> t]

ChatEntry(p, t) ==
    [player_id |-> p, sentiment |-> "confident", associated_action |-> "raise",
     message |-> t]

SummaryEntry(w, t) ==
    [winner |-> w, pot_amount |-> 80, showdown_reached |-> TRUE,
     text_description |-> t]

GameDoc(g, as, cs, sm) ==
    [game_id |-> g, actions |-> as, chat_messages |-> cs, hand_summary |-> sm]

\* One recording of game "g1": an action of each participant, a chat line
\* of either and the hand summary; a later recording of the game carries
\* other texts.
SingleGames ==
    {GameDoc("g1", <<ActionEntry("P0", t), ActionEntry("P1", t)>>,
             <<ChatEntry(pc, t)>>, SummaryEntry("P1", t)) :
        pc \in Players, t \in DocTexts}

\* The contents of data_dir the constructor may find: one game file, or a
\* file that cannot be parsed.
Corpora == {<<g>> : g \in SingleGames} \cup {<<Unreadable>>}

(***************************************************************************)
(* ChromaDB collections: a sequence of documents in insertion order, with  *)
(* at most one document per id.                                            *)
(***************************************************************************)
Doc(id, text, embedding, metadata) ==
    [id |-> id, document |-> text, embedding |-> embedding, metadata |-> metadata]

HasId(col, id) == \E i \in DOMAIN col : col[i].id = id

\* Collection.add(ids=[id], ...): with PersistentClient (chromadb >= 0.4) a
\* record whose id already exists is ignored and the stored record is kept.
CollectionAdd(col, doc) == IF HasId(col, doc.id) THEN col ELSE Append(col, doc)

MatchesAll(d, player_id) == TRUE

\* where={"player_id": player_id}: exact equality on the metadata value.
Matches(d, player_id) ==
    "player_id" \in DOMAIN d.metadata /\ d.metadata.player_id = player_id

\* Collection.get(where={"player_id": player_id}): the matching documents.
CollectionGet(col, player_id) == SelectSeq(col, LAMBDA d : Matches(d, player_id))

\* Collection.query(query_embeddings=[q], where=..., n_results=n): the n
\* nearest matching documents, ascending by distance; the order among
\* documents at equal distance is not determined by the index.
CollectionQuery(col, q, player_id, n) ==
    LET cand == CollectionGet(col, player_id)
        k == Min(n, Len(cand))
        dist(i) == Distance(q, cand[i].embedding)
    IN  {[j \in 1..k |-> [id |-> cand[idx[j]].id,
                          document |-> cand[idx[j]].document,
                          metadata |-> cand[idx[j]].metadata,
                          distance |-> dist(idx[j])]] :
            idx \in {f \in [1..k -> DOMAIN cand] :
                        /\ \A a, b \in 1..k : a < b => f[a] # f[b]
                        /\ \A a, b \in 1..k : a < b => dist(f[a]) <= dist(f[b])
                        /\ \A a \in 1..k : \A c \in DOMAIN cand :
                              (\A b \in 1..k : f[b] # c) => dist(f[a]) <= dist(c)}}

(***************************************************************************)
(* __init__ and load_game_data.                                            *)
(***************************************************************************)
\* load_game_data: every file that parses is appended; one that raises is
\* reported and skipped.
RECURSIVE load_game_data(_)
load_game_data(files) ==
    IF files = <<>> THEN <<>>
    ELSE (IF "unreadable" \in DOMAIN Head(files) THEN <<>> ELSE <<Head(files)>>)
         \o load_game_data(Tail(files))

\* __init__: get_or_create_collection keeps what db_dir already holds;
\* game_data starts empty and is filled from the files of data_dir.
Construct(corpora) ==
    \E files \in corpora :
        /\ game_data' = load_game_data(files)
        /\ result' = [op |-> "__init__", outcome |-> "returned", calls |-> 0]
        /\ UNCHANGED <<actions_collection, chat_collection, summary_collection, pure>>

(***************************************************************************)
(* index_game_data.                                                        *)
(***************************************************************************)
ActionItems(game, game_id) ==
    LET as == Get(game, "actions", <<>>)
    IN  [i \in 1..Len(as) |->
            [coll |-> "actions",
             id |-> <<game_id, "action", i - 1>>,
             text |-> Get(as[i], "text_description", <<>>),
             metadata |-> [game_id |-> game_id,
                           player_id |-> Get(as[i], "player_id", "unknown"),
                           action |-> Get(as[i], "action", ""),
                           game_stage |-> Get(as[i], "game_stage", ""),
                           amount |-> Get(as[i], "amount", 0)]]]

ChatItems(game, game_id) ==
    LET ms == Get(game, "chat_messages", <<>>)
    IN  [i \in 1..Len(ms) |->
            [coll |-> "chat",
             id |-> <<game_id, "message", i - 1>>,
             text |-> Get(ms[i], "message", <<>>),
             metadata |-> [game_id |-> game_id,
                           player_id |-> Get(ms[i], "player_id", "unknown"),
                           sentiment |-> Get(ms[i], "sentiment", ""),
                           associated_action |-> Get(ms[i], "associated_action", "")]]]

SummaryItems(game, game_id) ==
    IF "hand_summary" \in DOMAIN game
    THEN LET sm == game.hand_summary
         IN  <<[coll |-> "summaries",
                id |-> <<game_id, "summary">>,
                text |-> Get(sm, "text_description", <<>>),
                metadata |-> [game_id |-> game_id,
                              winner |-> Get(sm, "winner", ""),
                              pot_amount |-> Get(sm, "pot_amount", 0),
                              showdown_reached |-> Get(sm, "showdown_reached", FALSE)]]>>
    ELSE <<>>

\* The records of one game in the order the loops visit them; a record with
\* an empty text is passed over ("if action_text:").
GameItems(game) ==
    LET game_id == Get(game, "game_id", "unknown")
    IN  SelectSeq(ActionItems(game, game_id) \o ChatItems(game, game_id)
                    \o SummaryItems(game, game_id),
                  LAMBDA it : it.text # <<>>)

IndexItems(games) == Flatten([i \in 1..Len(games) |-> GameItems(games[i])])

\* What the provider can answer to n calls made one after the other by code
\* that stops at the first call that raises: a vector for every call, or
\* vectors up to a call that raises.
ProviderAnswers(n, vecs) ==
    [1..n -> vecs]
    \cup UNION {{prefix \o <<ProviderError>> : prefix \in [1..(failed - 1) -> vecs]} :
                   failed \in 1..n}

\* The loops of index_game_data over `items`, the provider answering the
\* i-th generate_embedding call with resp[i].  A failed call raises out of
\* index_game_data; what was added before stays added.
RECURSIVE AddAll(_, _, _, _)
AddAll(st, items, resp, i) ==
    IF i > Len(items) THEN st
    ELSE IF resp[i] = ProviderError
         THEN [st EXCEPT !.outcome = "raised", !.calls = i]
         ELSE LET it == items[i]
                  doc == Doc(it.id, it.text, resp[i], it.metadata)
              IN  AddAll([st EXCEPT
                             !.calls = i,
                             !.actions = IF it.coll = "actions"
                                         THEN CollectionAdd(@, doc) ELSE @,
                             !.chat = IF it.coll = "chat"
                                      THEN CollectionAdd(@, doc) ELSE @,
                             !.summaries = IF it.coll = "summaries"
                                           THEN CollectionAdd(@, doc) ELSE @],
                         items, resp, i + 1)

IndexGameData(vecs) ==
    LET items == IndexItems(game_data)
    IN  \E resp \in ProviderAnswers(Len(items), vecs) :
            LET st == AddAll([actions |-> actions_collection,
                              chat |-> chat_collection,
                              summaries |-> summary_collection,
                              outcome |-> "returned", calls |-> 0],
                             items, resp, 1)
            IN  /\ actions_collection' = st.actions
                /\ chat_collection' = st.chat
                /\ summary_collection' = st.summaries
                /\ result' = [op |-> "index_game_data", outcome |-> st.outcome,
                              calls |-> st.calls]
                /\ UNCHANGED <<game_data, pure>>

(***************************************************************************)
(* Trait queries.                                                          *)
(***************************************************************************)
NResults == 3

EvidenceListTexts(results) ==
    [j \in DOMAIN results |-> [document |-> results[j].document]]

\* The list the handlers build from the query's answer: document, metadata
\* and distance of every hit.
EvidenceList(results) ==
    [j \in DOMAIN results |-> [document |-> results[j].document,
                               metadata |-> results[j].metadata,
                               distance |-> results[j].distance]]

TraitQueryOutcomesUnlimited(col, player_id, n, vecs) ==
    {[outcome |-> "raised", calls |-> 1, error |-> ProviderError]}
    \cup UNION {{[outcome |-> "returned", calls |-> 1, query_embedding |-> q,
                  ids |-> [j \in DOMAIN r |-> r[j].id], value |-> EvidenceList(r)] :
                    r \in CollectionQuery(col, q, player_id, Len(col))} :
                   q \in vecs}

TraitQueryOutcomesStrict(col, player_id, n, vecs) ==
    IF CollectionGet(col, player_id) = <<>>
    THEN {[outcome |-> "raised", calls |-> 1, error |-> <<"NoDocuments">>]}
    ELSE {[outcome |-> "raised", calls |-> 1, error |-> ProviderError]}
         \cup UNION {{[outcome |-> "returned", calls |-> 1, query_embedding |-> q,
                       ids |-> [j \in DOMAIN r |-> r[j].id], value |-> EvidenceList(r)] :
                         r \in CollectionQuery(col, q, player_id, n)} :
                        q \in vecs}

\* query_player_actions_by_trait / query_player_chat_by_trait on collection
\* `col`: the value returned when the provider answers the trait query with
\* q, or the exception that generate_embedding lets through.  The result is
\* kept with the query embedding and the ids the index answered with.
TraitQueryOutcomes(col, player_id, n, vecs) ==
    {[outcome |-> "raised", calls |-> 1, error |-> ProviderError]}
    \cup UNION {{[outcome |-> "returned", calls |-> 1, query_embedding |-> q,
                  ids |-> [j \in DOMAIN r |-> r[j].id], value |-> EvidenceList(r)] :
                    r \in CollectionQuery(col, q, player_id, n)} :
                   q \in vecs}

QueryPlayerActionsByTrait(ids, vecs) ==
    \E player_id \in ids :
        \E o \in TraitQueryOutcomes(actions_collection, player_id, NResults, vecs) :
            /\ result' = o @@ [op |-> "query_player_actions_by_trait",
                               player_id |-> player_id, n_results |-> NResults]
            /\ UNCHANGED <<game_data, actions_collection, chat_collection,
                           summary_collection, pure>>

QueryPlayerChatByTrait(ids, vecs) ==
    \E player_id \in ids :
        \E o \in TraitQueryOutcomes(chat_collection, player_id, NResults, vecs) :
            /\ result' = o @@ [op |-> "query_player_chat_by_trait",
                               player_id |-> player_id, n_results |-> NResults]
            /\ UNCHANGED <<game_data, actions_collection, chat_collection,
                           summary_collection, pure>>

(***************************************************************************)
(* Exact vectors: num/den with den > 0, in lowest terms.                   *)
(***************************************************************************)
Abs(x) == IF x < 0 THEN -x ELSE x

RECURSIVE GCD(_, _)
GCD(a, b) == IF b = 0 THEN a ELSE GCD(b, a % b)

RECURSIVE GCDSeq(_)
GCDSeq(s) == IF s = <<>> THEN 0 ELSE GCD(Abs(Head(s)), GCDSeq(Tail(s)))

Normalize(num, den) ==
    LET g == GCD(den, GCDSeq(num))
    IN  [num |-> [i \in DOMAIN num |-> num[i] \div g], den |-> den \div g]

\* A provider answer as an exact vector.
Exact(v) == [num |-> v, den |-> 1]

RECURSIVE SumVecs(_)
SumVecs(vs) ==
    IF Len(vs) = 1 THEN vs[1]
    ELSE LET rest == SumVecs(Tail(vs))
         IN  [i \in DOMAIN vs[1] |-> vs[1][i] + rest[i]]

SumOnly(vs) == Exact(SumVecs(vs))

\* np.mean(chunk_embeddings, axis=0) of a non-empty list of provider answers.
MeanOf(vs) == Normalize(SumVecs(vs), Len(vs))

(***************************************************************************)
(* _generate_chunked_embedding: the chunking loops.                        *)
(***************************************************************************)
estimate_tokens(text) == Len(text) \div 4

RECURSIVE WordLoopDrop(_, _, _, _, _, _)
WordLoopDrop(words, i, chunks, temp_chunk, temp_tokens, max) ==
    IF i > Len(words)
    THEN IF temp_chunk # <<>> THEN Append(chunks, Join(temp_chunk)) ELSE chunks
    ELSE LET word_tokens == estimate_tokens(words[i] \o <<" ">>)
         IN  IF temp_tokens + word_tokens > max
             THEN WordLoopDrop(words, i + 1, Append(chunks, Join(temp_chunk)),
                               <<>>, 0, max)
             ELSE WordLoopDrop(words, i + 1, chunks, Append(temp_chunk, words[i]),
                               temp_tokens + word_tokens, max)

\* The inner loop over the words of one over-long text, from word i on.
RECURSIVE WordLoop(_, _, _, _, _, _)
WordLoop(words, i, chunks, temp_chunk, temp_tokens, max) ==
    IF i > Len(words)
    THEN IF temp_chunk # <<>> THEN Append(chunks, Join(temp_chunk)) ELSE chunks
    ELSE LET word_tokens == estimate_tokens(words[i] \o <<" ">>)
         IN  IF temp_tokens + word_tokens > max
             THEN WordLoop(words, i + 1, Append(chunks, Join(temp_chunk)),
                           <<words[i]>>, word_tokens, max)
             ELSE WordLoop(words, i + 1, chunks, Append(temp_chunk, words[i]),
                           temp_tokens + word_tokens, max)

RECURSIVE TextLoopReset(_, _, _, _, _, _)
TextLoopReset(texts, i, chunks, current_chunk, current_tokens, max) ==
    IF i > Len(texts)
    THEN IF current_chunk # <<>> THEN Append(chunks, Join(current_chunk)) ELSE chunks
    ELSE LET text_tokens == estimate_tokens(texts[i])
         IN  IF text_tokens > max
             THEN TextLoopReset(texts, i + 1,
                                WordLoop(Split(texts[i]), 1, chunks, <<>>, 0, max),
                                <<>>, 0, max)
             ELSE IF current_tokens + text_tokens > max /\ current_chunk # <<>>
             THEN TextLoopReset(texts, i + 1, Append(chunks, Join(current_chunk)),
                                <<texts[i]>>, text_tokens, max)
             ELSE TextLoopReset(texts, i + 1, chunks, Append(current_chunk, texts[i]),
                                current_tokens + text_tokens, max)

RECURSIVE TextLoopEarly(_, _, _, _, _, _)
TextLoopEarly(texts, i, chunks, current_chunk, current_tokens, max) ==
    IF i > Len(texts)
    THEN IF current_chunk # <<>> THEN Append(chunks, Join(current_chunk)) ELSE chunks
    ELSE LET text_tokens == estimate_tokens(texts[i])
         IN  IF text_tokens > max
             THEN TextLoopEarly(texts, i + 1,
                                WordLoop(Split(texts[i]), 1, chunks, <<>>, 0, max),
                                current_chunk, current_tokens, max)
             ELSE IF current_tokens + text_tokens >= max /\ current_chunk # <<>>
             THEN TextLoopEarly(texts, i + 1, Append(chunks, Join(current_chunk)),
                                <<texts[i]>>, text_tokens, max)
             ELSE TextLoopEarly(texts, i + 1, chunks, Append(current_chunk, texts[i]),
                                current_tokens + text_tokens, max)

\* The outer loop over the texts, from text i on, and the final flush.
RECURSIVE TextLoop(_, _, _, _, _, _)
TextLoop(texts, i, chunks, current_chunk, current_tokens, max) ==
    IF i > Len(texts)
    THEN IF current_chunk # <<>> THEN Append(chunks, Join(current_chunk)) ELSE chunks
    ELSE LET text_tokens == estimate_tokens(texts[i])
         IN  IF text_tokens > max
             THEN TextLoop(texts, i + 1,
                           WordLoop(Split(texts[i]), 1, chunks, <<>>, 0, max),
                           current_chunk, current_tokens, max)
             ELSE IF current_tokens + text_tokens > max
             THEN TextLoop(texts, i + 1, Append(chunks, Join(current_chunk)),
                           <<texts[i]>>, text_tokens, max)
             ELSE TextLoop(texts, i + 1, chunks, Append(current_chunk, texts[i]),
                           current_tokens + text_tokens, max)

MakeChunks(texts, max) == TextLoop(texts, 1, <<>>, <<>>, 0, max)

(***************************************************************************)
(* _generate_chunked_embedding: the embedding loop and the average.        *)
(***************************************************************************)
EmbedChunksAbort(resp) ==
    IF \E i \in DOMAIN resp : resp[i] = ProviderError THEN <<>> ELSE resp

\* chunk_embeddings after the loop, the provider answering the call for
\* chunk i with resp[i]: a call that raises is reported and passed over.
EmbedChunks(resp) == SelectSeq(resp, LAMBDA r : r # ProviderError)

\* What _generate_chunked_embedding(texts, max) does when the provider
\* answers the call for chunk i with resp[i].
ChunkedEmbedding(texts, max, resp) ==
    IF texts = <<>>
    THEN [outcome |-> "raised", error |-> "No texts provided for embedding",
          chunks |-> <<>>, resp |-> <<>>, calls |-> 0]
    ELSE LET chunk_embeddings == EmbedChunks(resp)
         IN  IF chunk_embeddings = <<>>
             THEN [outcome |-> "raised",
                   error |-> "Failed to generate any embeddings from the text chunks",
                   chunks |-> MakeChunks(texts, max), resp |-> resp, calls |-> Len(resp)]
             ELSE [outcome |-> "returned", value |-> MeanOf(chunk_embeddings),
                   chunks |-> MakeChunks(texts, max), resp |-> resp, calls |-> Len(resp)]

\* Every way a call can go, over the provider's possible answers.
ChunkedEmbeddingOutcomes(texts, max, vecs) ==
    LET n == IF texts = <<>> THEN 0 ELSE Len(MakeChunks(texts, max))
    IN  {ChunkedEmbedding(texts, max, resp) : resp \in [1..n -> vecs \cup {ProviderError}]}

(***************************************************************************)
(* _calculate_similarity.  A similarity is sign * sqrt(p / q) with p/q in  *)
(* lowest terms, or NaN (written with q = 0): dot / (norm1 * norm2) is a   *)
(* float division, and numpy answers 0.0 / 0.0 with nan, not an exception. *)
(***************************************************************************)
NaN == [sign |-> 0, p |-> 0, q |-> 0]

IsNaN(s) == s.q = 0

Sign(x) == IF x > 0 THEN 1 ELSE IF x < 0 THEN -1 ELSE 0

\* n / sqrt(d), for d > 0.
Ratio(n, d) ==
    LET g == GCD(n * n, d)
    IN  [sign |-> Sign(n), p |-> (n * n) \div g, q |-> d \div g]

\* dot_product / (norm1 * norm2) as a real number; the denominators of
\* the two exact vectors scale the dot product and the product of the
\* norms alike and cancel.  The rankings compare these values: on the
\* vectors of the specifications the rounding of the floats (see
\* calculate_similarity_float64 below) changes neither which of two
\* similarities is the smaller nor whether they are equal.
calculate_similarity(embedding1, embedding2) ==
    LET dot == Dot(embedding1.num, embedding2.num)
        sq == Dot(embedding1.num, embedding1.num) * Dot(embedding2.num, embedding2.num)
    IN  IF sq = 0 THEN NaN ELSE Ratio(dot, sq)

(***************************************************************************)
(* The same expression as numpy evaluates it, in binary64: np.array of a   *)
(* list of floats is float64, np.linalg.norm is sqrt(dot(x, x)), and sqrt, *)
(* "*" and "/" each round their exact result to the nearest float, ties to *)
(* even.  A natural number is kept as its digits to the base Base, lowest  *)
(* first and without leading zeros (0 is <<>>); a float other than zero is *)
(* a significand of Precision bits and an exponent, standing for           *)
(* man * 2^exp.                                                            *)
(***************************************************************************)
Precision == 53

Base == 2^13

BaseBits == CHOOSE n \in 1..30 : 2^n = Base

RECURSIVE Digits(_)
Digits(n) == IF n = 0 THEN <<>> ELSE <<n % Base>> \o Digits(n \div Base)

RECURSIVE Trim(_)
Trim(a) ==
    IF a # <<>> /\ a[Len(a)] = 0 THEN Trim(SubSeq(a, 1, Len(a) - 1)) ELSE a

Less(a, b) ==
    \/ Len(a) < Len(b)
    \/ /\ Len(a) = Len(b)
       /\ \E i \in DOMAIN a :
             a[i] < b[i] /\ \A j \in (i + 1)..Len(a) : a[j] = b[j]

RECURSIVE Borrow(_, _, _, _)
Borrow(a, b, i, borrow) ==
    IF i > Len(a) THEN <<>>
    ELSE LET d == a[i] - (IF i <= Len(b) THEN b[i] ELSE 0) - borrow
         IN  <<(d + Base) % Base>> \o Borrow(a, b, i + 1, IF d < 0 THEN 1 ELSE 0)

\* a - b, for b <= a.
Minus(a, b) == Trim(Borrow(a, b, 1, 0))

RECURSIVE Carry(_, _, _)
Carry(columns, i, carry) ==
    IF i > Len(columns) THEN Digits(carry)
    ELSE <<(columns[i] + carry) % Base>>
         \o Carry(columns, i + 1, (columns[i] + carry) \div Base)

\* m * a + c for small m and c.
Scale(a, m, c) == Carry([i \in DOMAIN a |-> m * a[i]], 1, c)

\* a * b, for a and b other than zero.
Times(a, b) ==
    Carry([k \in 1..(Len(a) + Len(b) - 1) |->
              SumSeq([i \in 1..Len(a) |->
                         IF k + 1 - i \in 1..Len(b) THEN a[i] * b[k + 1 - i] ELSE 0])],
          1, 0)

\* The bits of a, the lowest being bit 0.
Bit(a, k) ==
    IF k < 0 \/ k \div BaseBits >= Len(a) THEN 0
    ELSE (a[(k \div BaseBits) + 1] \div 2^(k % BaseBits)) % 2

BitLen(a) ==
    IF a = <<>> THEN 0
    ELSE (Len(a) - 1) * BaseBits
         + (CHOOSE n \in 1..BaseBits : 2^(n - 1) <= a[Len(a)] /\ a[Len(a)] < 2^n)

\* The number whose bits 0 .. n-1 are the bits from, from + 1, ... of a.
BitsFrom(a, from, n) ==
    Trim([i \in 1..((n + BaseBits - 1) \div BaseBits) |->
             SumSeq([j \in 1..BaseBits |->
                        IF (i - 1) * BaseBits + j > n THEN 0
                        ELSE Bit(a, from + (i - 1) * BaseBits + j - 1) * 2^(j - 1)])])

\* The float nearest to a * 2^exp, or to a value between a * 2^exp and
\* (a + 1) * 2^exp when `inexact`; a # 0.
Round(a, exp, inexact) ==
    LET drop == BitLen(a) - Precision
    IN  IF drop <= 0
        THEN [man |-> BitsFrom(a, drop, Precision), exp |-> exp + drop]
        ELSE LET kept == BitsFrom(a, drop, Precision)
                 half == Bit(a, drop - 1) = 1
                 below == inexact \/ \E k \in 0..(drop - 2) : Bit(a, k) = 1
                 up == half /\ (below \/ Bit(kept, 0) = 1)
                 man == IF up THEN Scale(kept, 1, 1) ELSE kept
             IN  IF BitLen(man) > Precision
                 THEN [man |-> BitsFrom(man, 1, Precision), exp |-> exp + drop + 1]
                 ELSE [man |-> man, exp |-> exp + drop]

\* The digits of the square root taken one at a time: `root` is the root so
\* far, `rest` what is left under it; each step brings down two zeros.
RECURSIVE RootLoop(_, _, _)
RootLoop(root, rest, steps) ==
    IF steps = 0 THEN [root |-> root, rest |-> rest]
    ELSE LET r == Scale(rest, 4, 0)
             t == Scale(root, 4, 1)
         IN  IF Less(r, t)
             THEN RootLoop(Scale(root, 2, 0), r, steps - 1)
             ELSE RootLoop(Scale(root, 2, 1), Minus(r, t), steps - 1)

\* np.sqrt(n) for an integer n > 0.
Sqrt64(n) ==
    LET whole == CHOOSE k \in 1..n : k * k <= n /\ (k + 1) * (k + 1) > n
        r == RootLoop(Digits(whole), Digits(n - whole * whole), Precision + 1)
    IN  Round(r.root, -(Precision + 1), r.rest # <<>>)

\* x * y for floats other than zero.
Times64(x, y) == Round(Times(x.man, y.man), x.exp + y.exp, FALSE)

\* Long division by `by`: `rest` is what is left of the dividend, and each
\* step brings down a zero and finds one more digit of the quotient, until
\* the quotient has two bits more than a significand.
RECURSIVE QuotientLoop(_, _, _, _)
QuotientLoop(quotient, rest, by, steps) ==
    IF BitLen(quotient) >= Precision + 2
    THEN [quotient |-> quotient, rest |-> rest, steps |-> steps]
    ELSE LET r == Scale(rest, 2, 0)
         IN  IF Less(r, by)
             THEN QuotientLoop(Scale(quotient, 2, 0), r, by, steps + 1)
             ELSE QuotientLoop(Scale(quotient, 2, 1), Minus(r, by), by, steps + 1)

\* n / y for an integer n > 0 (below 2^(Precision - 1)) and a float y: the
\* division starts from n * 2^(shift - 1), which is below y's significand.
Over64(n, y) ==
    LET shift == Precision - BitLen(Digits(n))
        q == QuotientLoop(<<>>, BitsFrom(Digits(n), 1 - shift, Precision), y.man, 0)
    IN  Round(q.quotient, 1 - shift - q.steps - y.exp, q.rest # <<>>)

\* 1.0
One64 == [man |-> BitsFrom(<<1>>, 1 - Precision, Precision), exp |-> 1 - Precision]

\* x <= y for floats above zero.
Leq64(x, y) ==
    \/ x.exp < y.exp
    \/ x.exp = y.exp /\ ~Less(y.man, x.man)

\* _calculate_similarity on two lists of binary fractions (a provider
\* answer or the mean of two): the components, the dot product and the
\* squares of the norms are exact, and the denominators scale
\* dot_product and norm1 * norm2 by the same power of two, which no
\* rounding sees.  The result is a sign and the float of its size
\* (`nan` for 0.0 / 0.0, no size for a dot product of 0).
calculate_similarity_float64(embedding1, embedding2) ==
    LET dot_product == Dot(embedding1.num, embedding2.num)
        sq1 == Dot(embedding1.num, embedding1.num)
        sq2 == Dot(embedding2.num, embedding2.num)
    IN  IF sq1 = 0 \/ sq2 = 0 THEN [sign |-> 0, nan |-> TRUE]
        ELSE IF dot_product = 0 THEN [sign |-> 0, nan |-> FALSE]
        ELSE LET norm1 == Sqrt64(sq1)
                 norm2 == Sqrt64(sq2)
             IN  [sign |-> Sign(dot_product), nan |-> FALSE,
                  size |-> Over64(Abs(dot_product), Times64(norm1, norm2))]

\* s < t on floats: False as soon as one side is nan.
SimLt(s, t) ==
    /\ ~IsNaN(s)
    /\ ~IsNaN(t)
    /\ \/ s.sign < t.sign
       \/ s.sign = 1 /\ t.sign = 1 /\ s.p * t.q < t.p * s.q
       \/ s.sign = -1 /\ t.sign = -1 /\ s.p * t.q > t.p * s.q

(***************************************************************************)
(* sorted(items, key=lambda x: x[1], reverse=True) as CPython's list.sort  *)
(* runs it on fewer than 64 items: reverse, find the leading run, insert   *)
(* the rest by binary search with "<" on the keys, reverse again.          *)
(***************************************************************************)
KeyLt(x, y) == SimLt(x.similarity, y.similarity)

\* count_run: the length of the run that starts the list, and whether it
\* is strictly descending.
RECURSIVE RunEnd(_, _, _)
RunEnd(s, i, descending) ==
    IF i > Len(s) THEN Len(s)
    ELSE IF KeyLt(s[i], s[i - 1]) = descending THEN RunEnd(s, i + 1, descending)
    ELSE i - 1

\* binarysort's search for the place of pivot in s[l..r-1].
RECURSIVE InsertionPoint(_, _, _, _)
InsertionPoint(s, pivot, l, r) ==
    IF l >= r THEN l
    ELSE LET p == l + ((r - l) \div 2)
         IN  IF KeyLt(pivot, s[p]) THEN InsertionPoint(s, pivot, l, p)
             ELSE InsertionPoint(s, pivot, p + 1, r)

\* binarysort: s[1..start-1] is sorted; insert s[start], s[start+1], ...
RECURSIVE BinarySort(_, _)
BinarySort(s, start) ==
    IF start > Len(s) THEN s
    ELSE LET l == InsertionPoint(s, s[start], 1, start)
             moved == [i \in 1..Len(s) |->
                          IF i < l \/ i > start THEN s[i]
                          ELSE IF i = l THEN s[start]
                          ELSE s[i - 1]]
         IN  BinarySort(moved, start + 1)

ListSort(s) ==
    IF Len(s) < 2 THEN s
    ELSE LET descending == KeyLt(s[2], s[1])
             n == RunEnd(s, 3, descending)
             run == IF descending
                    THEN [i \in 1..Len(s) |-> IF i <= n THEN s[n + 1 - i] ELSE s[i]]
                    ELSE s
         IN  BinarySort(run, n + 1)

SortedReverseUnstable(items) ==
    IF result.op = "compare_to_archetypes"
    THEN Rev(ListSort(items))
    ELSE Rev(ListSort(Rev(items)))

SortedReverse(items) == Rev(ListSort(Rev(items)))

(***************************************************************************)
(* get_player_statistics.                                                  *)
(***************************************************************************)
CountOf(metadatas, key, v) ==
    Cardinality({i \in DOMAIN metadatas : Get(metadatas[i], key, "unknown") = v})

\* The counting loop: one entry per value seen, with its number of documents.
Counts(metadatas, key) ==
    [v \in {Get(metadatas[i], key, "unknown") : i \in DOMAIN metadatas} |->
        CountOf(metadatas, key, v)]

PercentageUnscaled(count, total) ==
    IF total > 0 THEN [num |-> count, den |-> total] ELSE [num |-> 0, den |-> 1]

\* (count / total) * 100 if total > 0 else 0, as an exact fraction.
Percentage(count, total) ==
    IF total > 0 THEN [num |-> count * 100, den |-> total] ELSE [num |-> 0, den |-> 1]

Metadatas(docs) == [i \in DOMAIN docs |-> docs[i].metadata]

Documents(docs) == [i \in DOMAIN docs |-> docs[i].document]

\* The counting part of get_player_statistics, on the metadata fetched
\* from the two collections.
Statistics(player_actions, player_chat) ==
    LET action_counts == Counts(player_actions, "action")
        sentiment_counts == Counts(player_chat, "sentiment")
    IN  [total_actions |-> Len(player_actions),
         action_counts |-> action_counts,
         action_percentages |->
            [a \in DOMAIN action_counts |-> Percentage(action_counts[a], Len(player_actions))],
         total_messages |-> Len(player_chat),
         sentiment_counts |-> sentiment_counts,
         sentiment_percentages |->
            [m \in DOMAIN sentiment_counts |->
                Percentage(sentiment_counts[m], Len(player_chat))]]

get_player_statistics_cached(player_id) ==
    IF previous.op = "get_player_statistics" /\ previous.player_id = player_id
    THEN previous.value
    ELSE Statistics(Metadatas(CollectionGet(actions_collection, player_id)),
                    Metadatas(CollectionGet(chat_collection, player_id)))

get_player_statistics(player_id) ==
    Statistics(Metadatas(CollectionGet(actions_collection, player_id)),
               Metadatas(CollectionGet(chat_collection, player_id)))

GetPlayerStatistics(ids) ==
    \E player_id \in ids :
        /\ result' = [op |-> "get_player_statistics", player_id |-> player_id,
                      outcome |-> "returned", calls |-> 0,
                      value |-> get_player_statistics(player_id),
                      player_actions |->
                          Metadatas(CollectionGet(actions_collection, player_id)),
                      player_chat |->
                          Metadatas(CollectionGet(chat_collection, player_id))]
        /\ UNCHANGED <<game_data, actions_collection, chat_collection,
                       summary_collection, pure>>

(***************************************************************************)
(* analyze_player_personality.                                             *)
(***************************************************************************)
\* self.trait_queries, in the order of the dict.
TraitNames ==
    <<"aggression", "bluff_tendency", "risk_tolerance", "adaptability",
      "tilt_prone", "patience">>

\* The external calls of one request, in order: for each trait the embedding
\* of the query for the actions and then for the chat, and last the chat
\* completion.
AnalysisCalls == 2 * Len(TraitNames) + 1

\* The returned analyses: one evidence list per trait and collection, each
\* as the index answers the trait query for some provider vector.
AnalysisResults(player_id, vecs) ==
    LET acts == {EvidenceList(r) :
                    r \in UNION {CollectionQuery(actions_collection, q, player_id, NResults) :
                                    q \in vecs}}
        chat == {EvidenceList(r) :
                    r \in UNION {CollectionQuery(chat_collection, q, player_id, NResults) :
                                    q \in vecs}}
    IN  {[player_id |-> player_id,
          analysis |-> "analysis",
          trait_examples |->
              [t \in Range(TraitNames) |-> [actions |-> a[t], chat |-> c[t]]],
          statistics |-> get_player_statistics(player_id)] :
            a \in [Range(TraitNames) -> acts], c \in [Range(TraitNames) -> chat]}

\* No call of the request is guarded: the first one that raises ends the
\* request with that exception.
AnalyzePlayerPersonality(ids, vecs) ==
    \E player_id \in ids :
        /\ \/ \E failed \in 1..AnalysisCalls :
                result' = [op |-> "analyze_player_personality", player_id |-> player_id,
                           outcome |-> "raised", calls |-> failed]
           \/ \E v \in AnalysisResults(player_id, vecs) :
                result' = [op |-> "analyze_player_personality", player_id |-> player_id,
                           outcome |-> "returned", calls |-> AnalysisCalls, value |-> v]
        /\ UNCHANGED <<game_data, actions_collection, chat_collection,
                       summary_collection, pure>>

(***************************************************************************)
(* compare_to_archetypes.                                                  *)
(***************************************************************************)
\* The keys of the archetypes dict, in its order.
Archetypes ==
    <<"tight_aggressive", "loose_passive", "maniac", "rock", "tricky",
      "calling_station">>

\* Every description is far below the chunk budget (at most 152 characters
\* against 4000 tokens); at the scaled budget that is a text of no tokens.
Description(archetype) == Word(3)

AllPlayerTextsWithSummaries(player_id) ==
    Documents(CollectionGet(actions_collection, player_id))
    \o Documents(CollectionGet(chat_collection, player_id))
    \o Documents(SelectSeq(summary_collection,
                           LAMBDA d : d.metadata.winner = player_id))

\* The texts that are aggregated for the participant.
AllPlayerTexts(player_id) ==
    Documents(CollectionGet(actions_collection, player_id))
    \o Documents(CollectionGet(chat_collection, player_id))

\* The ranking once all embeddings exist.
Ranking(player_id, player_embedding, archetype_embeddings) ==
    LET archetype_similarities ==
            [i \in DOMAIN Archetypes |->
                [archetype |-> Archetypes[i],
                 similarity |-> calculate_similarity(player_embedding,
                                                     archetype_embeddings[i])]]
        sorted_archetypes == SortedReverse(archetype_similarities)
    IN  [player_id |-> player_id,
         archetype_similarities |-> sorted_archetypes,
         best_match |-> sorted_archetypes[1].archetype,
         best_match_score |-> sorted_archetypes[1].similarity]

\* The embeddings of the archetype descriptions when every call is answered
\* (archetype_embeddings[i] for Archetypes[i]); a description is one chunk.
ArchetypeEmbeddings(aresp) ==
    [i \in DOMAIN Archetypes |->
        ChunkedEmbedding(<<Description(Archetypes[i])>>, MaxTokens, <<aresp[i]>>).value]

NoEvidenceRaises ==
    [outcome |-> "raised", calls |-> 0, error |-> "No texts provided for embedding"]

\* if not all_player_texts: return {"error": ...}, before any embedding.
NoEvidence ==
    [outcome |-> "returned", calls |-> 0,
     answers |-> [player |-> <<>>, archetypes |-> <<>>],
     value |-> [error |-> "No data available for this player"]]

\* What the provider can answer in the loop over the archetypes: a vector
\* for every description, or vectors up to a call that raises.
ArchetypeAnswers(vecs) == ProviderAnswers(Len(Archetypes), vecs)

\* compare_to_archetypes(player_id) when the provider answers the calls
\* for the chunks of the participant's texts with presp and the calls for
\* the archetype descriptions with aresp.  The aggregation of the
\* participant's texts may raise; the aggregation of a description raises
\* when its one call fails; nothing in compare_to_archetypes catches
\* either.  A result that is returned is kept with the `answers` the
\* provider gave.
CompareAnswered(player_id, presp, aresp) ==
    LET all_player_texts == AllPlayerTexts(player_id)
        player == ChunkedEmbedding(all_player_texts, MaxTokens, presp)
    IN  IF all_player_texts = <<>>
        THEN NoEvidence
        ELSE IF player.outcome = "raised"
        THEN [outcome |-> "raised", calls |-> player.calls, error |-> player.error]
        ELSE IF aresp[Len(aresp)] = ProviderError
        THEN [outcome |-> "raised", calls |-> player.calls + Len(aresp),
              error |-> ChunkedEmbedding(<<Description(Archetypes[Len(aresp)])>>,
                                         MaxTokens, <<ProviderError>>).error]
        ELSE [outcome |-> "returned", calls |-> player.calls + Len(aresp),
              answers |-> [player |-> presp, archetypes |-> aresp],
              value |-> Ranking(player_id, player.value, ArchetypeEmbeddings(aresp))]

\* Every way a call can go, over the provider's possible answers.
CompareOutcomes(player_id, vecs) ==
    LET all_player_texts == AllPlayerTexts(player_id)
        n == IF all_player_texts = <<>> THEN 0
             ELSE Len(MakeChunks(all_player_texts, MaxTokens))
    IN  {CompareAnswered(player_id, presp, aresp) :
            presp \in [1..n -> vecs \cup {ProviderError}],
            aresp \in IF all_player_texts = <<>> THEN {<<>>} ELSE ArchetypeAnswers(vecs)}

CompareToArchetypes(ids, vecs) ==
    \E player_id \in ids :
        \E o \in CompareOutcomes(player_id, vecs) :
            /\ result' = o @@ [op |-> "compare_to_archetypes", player_id |-> player_id,
                               all_player_texts |-> AllPlayerTexts(player_id)]
            /\ UNCHANGED <<game_data, actions_collection, chat_collection,
                           summary_collection, pure>>

\* The same request once more, the provider answering every text as it
\* answered it in the request before.
CompareToArchetypesAgain ==
    /\ result.op = "compare_to_archetypes"
    /\ result.outcome = "returned"
    /\ result' = CompareAnswered(result.player_id, result.answers.player,
                                 result.answers.archetypes)
                 @@ [op |-> "compare_to_archetypes", player_id |-> result.player_id,
                     all_player_texts |-> AllPlayerTexts(result.player_id)]
    /\ UNCHANGED <<game_data, actions_collection, chat_collection,
                   summary_collection, pure>>

(***************************************************************************)
(* A request call by call.  Every external call is a blocking call of the  *)
(* client library with the arguments the code gives it, and none of them   *)
(* is a timeout: the request stands in the call until the provider has     *)
(* answered or the call has raised.  `pure` holds the request under way    *)
(* and the answers it has received.                                        *)
(***************************************************************************)
InRequest == pure.op \in {"waiting", "answered"}

\* The number of chunks compare_to_archetypes embeds for the participant.
PlayerCalls(player_id) == Len(MakeChunks(AllPlayerTexts(player_id), MaxTokens))

\* The call is made: analyze_player_personality goes straight to the first
\* trait query; compare_to_archetypes returns at once without evidence.
StartRequest(ids) ==
    /\ pure.op = "none"
    /\ \E player_id \in ids :
          \/ /\ pure' = [op |-> "waiting", request |-> "analyze_player_personality",
                         player_id |-> player_id, answers |-> <<>>]
             /\ UNCHANGED result
          \/ /\ AllPlayerTexts(player_id) # <<>>
             /\ pure' = [op |-> "waiting", request |-> "compare_to_archetypes",
                         player_id |-> player_id, answers |-> <<>>]
             /\ UNCHANGED result
          \/ /\ AllPlayerTexts(player_id) = <<>>
             /\ result' = NoEvidence @@ [op |-> "compare_to_archetypes",
                                         player_id |-> player_id,
                                         all_player_texts |-> <<>>]
             /\ UNCHANGED pure
    /\ UNCHANGED <<game_data, actions_collection, chat_collection, summary_collection>>

\* The provider answers the call that is under way, or the call raises.
ProviderResponds(vecs) ==
    /\ pure.op = "waiting"
    /\ \E answer \in vecs \cup {ProviderError} :
          pure' = [pure EXCEPT !.op = "answered", !.answers = Append(@, answer)]
    /\ UNCHANGED <<game_data, actions_collection, chat_collection,
                   summary_collection, result>>

\* Whether the request ends with the answer just received: the analysis
\* with its last call or with the first call that raises; the comparison
\* when no chunk of the participant was embedded, when the call for an
\* archetype raises, or with the last archetype.
LastCall ==
    LET k == Len(pure.answers)
        n == PlayerCalls(pure.player_id)
    IN  IF pure.request = "analyze_player_personality"
        THEN k = AnalysisCalls \/ pure.answers[k] = ProviderError
        ELSE \/ k = n /\ \A i \in 1..n : pure.answers[i] = ProviderError
             \/ k > n /\ pure.answers[k] = ProviderError
             \/ k = n + Len(Archetypes)

\* The code goes on after the call: to the next call, or to the end of the
\* request.
Proceed(vecs) ==
    /\ pure.op = "answered"
    /\ IF ~LastCall
       THEN pure' = [pure EXCEPT !.op = "waiting"] /\ UNCHANGED result
       ELSE /\ pure' = [op |-> "none"]
            /\ LET k == Len(pure.answers)
                   n == PlayerCalls(pure.player_id)
               IN  IF pure.request = "compare_to_archetypes"
                   THEN result' =
                           CompareAnswered(pure.player_id,
                                           SubSeq(pure.answers, 1, n),
                                           SubSeq(pure.answers, n + 1, k))
                           @@ [op |-> "compare_to_archetypes",
                               player_id |-> pure.player_id,
                               all_player_texts |-> AllPlayerTexts(pure.player_id)]
                   ELSE IF pure.answers[k] = ProviderError
                   THEN result' = [op |-> "analyze_player_personality",
                                   player_id |-> pure.player_id,
                                   outcome |-> "raised", calls |-> k]
                   ELSE \E v \in AnalysisResults(pure.player_id, vecs) :
                           result' = [op |-> "analyze_player_personality",
                                      player_id |-> pure.player_id,
                                      outcome |-> "returned", calls |-> k,
                                      value |-> v]
    /\ UNCHANGED <<game_data, actions_collection, chat_collection, summary_collection>>

(***************************************************************************)
(* Helper-level calls on drawn arguments.                                  *)
(***************************************************************************)
\* A list of texts is drawn as one line over Chars and a separator: the
\* texts are the pieces of the line between separators, so the line's length
\* is that of " ".join(texts).
Separator == "|"

RECURSIVE TextsFrom(_, _)
TextsFrom(line, cur) ==
    IF line = <<>>
    THEN <<cur>>
    ELSE IF Head(line) = Separator
         THEN <<cur>> \o TextsFrom(Tail(line), <<>>)
         ELSE TextsFrom(Tail(line), Append(cur, Head(line)))

TextsOf(line) == TextsFrom(line, <<>>)

GenerateChunkedEmbedding(vecs) ==
    /\ pure.op = "args"
    /\ "texts" \in DOMAIN pure
    /\ \E o \in ChunkedEmbeddingOutcomes(pure.texts, pure.max, vecs) :
          pure' = o @@ [op |-> "_generate_chunked_embedding",
                        texts |-> pure.texts, max |-> pure.max]
    /\ UNCHANGED <<game_data, actions_collection, chat_collection,
                   summary_collection, result>>

\* Two texts that the loops pack into one chunk, aggregated both ways by
\* a provider that answers a text with embed[text]: `together` is the call
\* as the code makes it (one chunk, the joined text), `apart` the average
\* the code takes when either text is a chunk of its own.
AggregateBothWays(vecs) ==
    /\ pure.op = "args"
    /\ "texts" \in DOMAIN pure
    /\ Len(pure.texts) = 2
    /\ Len(MakeChunks(pure.texts, pure.max)) = 1
    /\ LET joined == MakeChunks(pure.texts, pure.max)[1]
       IN  \E embed \in [{pure.texts[1], pure.texts[2], joined} -> vecs] :
              pure' = [op |-> "aggregate_both_ways",
                       texts |-> pure.texts, max |-> pure.max, embed |-> embed,
                       together |-> ChunkedEmbedding(pure.texts, pure.max,
                                                     <<embed[joined]>>),
                       apart |-> MeanOf(EmbedChunks(<<embed[pure.texts[1]],
                                                      embed[pure.texts[2]]>>))]
    /\ UNCHANGED <<game_data, actions_collection, chat_collection,
                   summary_collection, result>>

\* Embeddings as the analyzer holds them: a provider answer, or the average
\* of two.
Embeddings == {MeanOf(vs) : vs \in [{1} -> Vec] \cup [{1, 2} -> Vec]}

SimilarityArgs ==
    {[op |-> "args", embedding1 |-> e1, embedding2 |-> e2] :
        e1 \in Embeddings, e2 \in Embeddings}

CalculateSimilarity ==
    /\ pure.op = "args"
    /\ "embedding1" \in DOMAIN pure
    /\ pure' = [op |-> "_calculate_similarity",
                embedding1 |-> pure.embedding1, embedding2 |-> pure.embedding2,
                value |-> calculate_similarity(pure.embedding1, pure.embedding2),
                float64 |-> calculate_similarity_float64(pure.embedding1,
                                                         pure.embedding2)]
    /\ UNCHANGED <<game_data, actions_collection, chat_collection,
                   summary_collection, result>>

(***************************************************************************)
(* Specifications.                                                         *)
(***************************************************************************)
Fresh ==
    /\ game_data = <<>>
    /\ actions_collection = <<>>
    /\ chat_collection = <<>>
    /\ summary_collection = <<>>
    /\ result = [op |-> "none"]
    /\ previous = [op |-> "none"]

\* The history variable: `previous` is the result of the latest call of
\* operation `op` that came before the current one.
Track(op) == previous' = IF result.op = op THEN result ELSE previous

Init == Fresh /\ pure = [op |-> "none"]

\* A retrieval or a request reads the index and changes nothing but
\* `result`, so every state it can end in is one it ends in when issued
\* while Ready: when the last call was the constructor or the indexing.
Ready == result.op \in {"none", "__init__", "index_game_data"}

\* Indexing and retrieval.
StoredVecs == {<<1, 0>>}

IndexVecs == {<<1, 0>>, <<1, 1>>}

Next ==
    \/ Construct(Corpora) /\ UNCHANGED previous
    \/ IndexGameData(StoredVecs) /\ UNCHANGED previous
    \/ Ready /\ QueryPlayerActionsByTrait(Players, IndexVecs) /\ UNCHANGED previous
    \/ Ready /\ QueryPlayerChatByTrait(Players, IndexVecs) /\ UNCHANGED previous
    \/ Ready /\ GetPlayerStatistics(Players) /\ UNCHANGED previous

Spec == Init /\ [][Next]_vars

\* The two requests of the query surface.
RequestCorpora ==
    {<<GameDoc("g1", <<ActionEntry("P1", TextA)>>, <<ChatEntry("P1", TextA)>>,
               SummaryEntry("P1", TextA))>>}

RequestVecs == {<<0, 0>>, <<1, 0>>, <<1, 1>>}

NextRequest ==
    \/ Construct(RequestCorpora) /\ UNCHANGED previous
    \/ IndexGameData(StoredVecs) /\ UNCHANGED previous
    \/ Ready /\ AnalyzePlayerPersonality(Players, IndexVecs) /\ UNCHANGED previous
    \/ Ready /\ CompareToArchetypes(Players, RequestVecs) /\ UNCHANGED previous

SpecRequest == Init /\ [][NextRequest]_vars

\* The classification with a provider whose vectors are never zero.
NextRanking ==
    \/ Construct(RequestCorpora) /\ UNCHANGED previous
    \/ IndexGameData(StoredVecs) /\ UNCHANGED previous
    \/ Ready /\ CompareToArchetypes(Players, IndexVecs) /\ UNCHANGED previous

SpecRanking == Init /\ [][NextRanking]_vars

\* The classification asked again on an unchanged index, with a provider
\* that answers a text as it answered it before.  `previous` is the result
\* of the request before the repeated one, and is forgotten by any other
\* call.
NextRepeat ==
    \/ Construct(RequestCorpora) /\ previous' = [op |-> "none"]
    \/ IndexGameData(StoredVecs) /\ previous' = [op |-> "none"]
    \/ Ready /\ CompareToArchetypes(Players, RequestVecs) /\ previous' = [op |-> "none"]
    \/ CompareToArchetypesAgain /\ Track("compare_to_archetypes")

SpecRepeat == Init /\ [][NextRepeat]_vars

\* Statistics over an index that grows between requests: an indexing run
\* that fails on the way leaves what it added, and a later run adds the
\* rest.  One action record has no "action" field.
GameOne ==
    [game_id |-> "g1",
     actions |-> <<ActionEntry("P1", TextA), ActionEntry("P1", TextB),
                   [ActionEntry("P0", TextA) EXCEPT !.action = "fold"]>>,
     chat_messages |-> <<ChatEntry("P1", TextA)>>]

GameTwo ==
    [game_id |-> "g2",
     actions |-> <<[player_id |-> "P1", game_stage |-> "turn", amount |-> 0,
                    text_description |-> TextA]>>,
     chat_messages |-> <<[ChatEntry("P1", TextB) EXCEPT !.sentiment = "frustrated"]>>]

StatsCorpora == RequestCorpora \cup {<<GameOne, GameTwo>>}

NextStats ==
    \/ Construct(StatsCorpora) /\ Track("get_player_statistics")
    \/ IndexGameData(StoredVecs) /\ Track("get_player_statistics")
    \/ Ready /\ GetPlayerStatistics(Players) /\ Track("get_player_statistics")

SpecStats == Init /\ [][NextStats]_vars

\* Trait evidence over an index in which a participant has more documents
\* than a query returns, stored in an order that is not the order of their
\* ids (the files of data_dir are read in the order glob yields them).
GameThree ==
    [game_id |-> "g3",
     actions |-> <<ActionEntry("P1", TextA), ActionEntry("P1", TextB)>>]

EvidenceCorpora == {<<GameThree, [GameOne EXCEPT !.chat_messages = <<>>]>>}

\* The constructor and the indexing set `result` anew and read nothing of
\* it, so they too need only be taken while Ready.
NextEvidence ==
    \/ Ready /\ Construct(EvidenceCorpora) /\ UNCHANGED previous
    \/ Ready /\ IndexGameData(IndexVecs) /\ UNCHANGED previous
    \/ Ready /\ QueryPlayerActionsByTrait(Players, IndexVecs) /\ UNCHANGED previous

SpecEvidence == Init /\ [][NextEvidence]_vars

\* A data_dir with a file that cannot be parsed and a game whose records
\* are not all complete: an action and a chat message without "player_id",
\* an action without "text_description", next to complete records.
GameFour ==
    [game_id |-> "g4",
     actions |-> <<[action |-> "call", game_stage |-> "flop", amount |-> 20,
                    text_description |-> TextA],
                   [player_id |-> "P1", action |-> "fold", game_stage |-> "turn",
                    amount |-> 0],
                   ActionEntry("P1", TextB)>>,
     chat_messages |-> <<[sentiment |-> "neutral", associated_action |-> "call",
                          message |-> TextA],
                         ChatEntry("P0", TextA)>>]

LoadCorpora == {<<Unreadable, GameFour>>, <<GameFour, Unreadable>>, <<Unreadable>>}

\* "unknown" is the participant the loops name when a record names none.
NextLoad ==
    \/ Construct(LoadCorpora) /\ UNCHANGED previous
    \/ IndexGameData(IndexVecs) /\ UNCHANGED previous
    \/ Ready /\ GetPlayerStatistics(Players \cup {"unknown"}) /\ UNCHANGED previous

SpecLoad == Init /\ [][NextLoad]_vars

\* The requests call by call.  The pipeline is one thread that runs on
\* whenever it is not standing in a call, hence the fairness of Proceed;
\* nothing obliges the provider to answer.
NextWait ==
    \/ pure.op = "none" /\ Construct(RequestCorpora) /\ UNCHANGED previous
    \/ pure.op = "none" /\ IndexGameData(StoredVecs) /\ UNCHANGED previous
    \/ Ready /\ StartRequest(Players) /\ UNCHANGED previous
    \/ ProviderResponds(StoredVecs) /\ UNCHANGED previous
    \/ Proceed(StoredVecs) /\ UNCHANGED previous

SpecWait ==
    Init /\ [][NextWait]_vars /\ WF_vars(Proceed(StoredVecs) /\ UNCHANGED previous)

\* _generate_chunked_embedding on drawn texts.
InitChunk ==
    /\ Fresh
    /\ \E max \in 1..MaxTokens :
         \/ pure = [op |-> "args", texts |-> <<>>, max |-> max]
         \/ \E n \in 0..MaxChars :
              \E line \in [1..n -> Chars \cup {Separator}] :
                pure = [op |-> "args", texts |-> TextsOf(line), max |-> max]

NextChunk == GenerateChunkedEmbedding(IndexVecs) /\ UNCHANGED previous

SpecChunk == InitChunk /\ [][NextChunk]_vars

\* Aggregation of a pair of texts in one chunk and in two.
NextLinear == AggregateBothWays(IndexVecs) /\ UNCHANGED previous

SpecLinear == InitChunk /\ [][NextLinear]_vars

\* _calculate_similarity on drawn embeddings.
InitSim == Fresh /\ pure \in SimilarityArgs

NextSim == CalculateSimilarity /\ UNCHANGED previous

SpecSim == InitSim /\ [][NextSim]_vars

(***************************************************************************)
(* Claims.                                                                 *)
(***************************************************************************)
CollectionOf(name) ==
    IF name = "actions" THEN actions_collection
    ELSE IF name = "chat" THEN chat_collection
    ELSE summary_collection

DocsWithId(col, id) == {i \in DOMAIN col : col[i].id = id}

OwnsDocs(col, player_id) == \E i \in DOMAIN col : col[i].metadata.player_id = player_id

\* C1: once index_game_data has run to its end, every record of the loaded
\* games that carries a text is in its collection exactly once, under its
\* id, with the text the record has now - also when the id was indexed
\* before with another text.
C1_IdempotentUpsert ==
    (result.op = "index_game_data" /\ result.outcome = "returned") =>
        \A it \in Range(IndexItems(game_data)) :
            /\ Cardinality(DocsWithId(CollectionOf(it.coll), it.id)) = 1
            /\ \A i \in DocsWithId(CollectionOf(it.coll), it.id) :
                  CollectionOf(it.coll)[i].document = it.text

\* C2: every document a trait query returns for participant P, and every
\* document the statistics fetch reads for P, has metadata player_id = P.
C2_FilterCorrectness ==
    /\ (/\ result.op \in {"query_player_actions_by_trait", "query_player_chat_by_trait"}
        /\ result.outcome = "returned") =>
            \A i \in DOMAIN result.value :
                result.value[i].metadata.player_id = result.player_id
    /\ result.op = "get_player_statistics" =>
            /\ \A i \in DOMAIN result.player_actions :
                  result.player_actions[i].player_id = result.player_id
            /\ \A i \in DOMAIN result.player_chat :
                  result.player_chat[i].player_id = result.player_id

\* A trait query answered with evidence while the collection also holds a
\* document of another participant.
C2_Witness ==
    /\ result.op = "query_player_actions_by_trait"
    /\ result.outcome = "returned"
    /\ Len(result.value) > 0
    /\ \E i \in DOMAIN actions_collection :
          actions_collection[i].metadata.player_id # result.player_id

\* C3: compare_to_archetypes for a participant without any action or chat
\* document returns a mapping with an "error" field, raises nothing and
\* makes no call to the embedding provider.
C3_NoEvidenceResult ==
    (/\ result.op = "compare_to_archetypes"
     /\ ~OwnsDocs(actions_collection, result.player_id)
     /\ ~OwnsDocs(chat_collection, result.player_id)) =>
        /\ result.outcome = "returned"
        /\ "error" \in DOMAIN result.value
        /\ result.calls = 0

\* The participant has no document while the index holds documents of
\* another participant.
C3_Witness ==
    /\ result.op = "compare_to_archetypes"
    /\ ~OwnsDocs(actions_collection, result.player_id)
    /\ ~OwnsDocs(chat_collection, result.player_id)
    /\ actions_collection # <<>>
    /\ chat_collection # <<>>

\* C4: analyze_player_personality and compare_to_archetypes return a result
\* object whatever the provider does; no exception reaches the caller.
C4_NoExceptionEscapes ==
    result.op \in {"analyze_player_personality", "compare_to_archetypes"} =>
        result.outcome = "returned"

ChunkCall == pure.op = "_generate_chunked_embedding"

Succeeded == {i \in DOMAIN pure.resp : pure.resp[i] # ProviderError}

\* C5: every chunk emitted, packed from whole texts or split off an
\* over-long text, has an estimate of len(chunk) // 4 tokens within the
\* maximum.
C5_ChunkBudget ==
    ChunkCall =>
        \A i \in DOMAIN pure.chunks : estimate_tokens(pure.chunks[i]) <= pure.max

\* C6: for a non-empty list of texts the aggregation returns a vector
\* exactly when the call of at least one chunk succeeded, whatever calls
\* failed; when none succeeded it raises and returns no vector.
C6_FailedChunkSkipped ==
    (ChunkCall /\ pure.texts # <<>>) =>
        IF Succeeded # {}
        THEN pure.outcome = "returned" /\ "value" \in DOMAIN pure
        ELSE pure.outcome = "raised" /\ "value" \notin DOMAIN pure

\* A vector is returned although the call of some chunk failed.
C6_Witness ==
    /\ ChunkCall
    /\ pure.outcome = "returned"
    /\ \E i \in DOMAIN pure.resp : pure.resp[i] = ProviderError

\* The k-th components of the answers of the calls that succeeded, summed.
SucceededSum(k) ==
    SumSeq([i \in DOMAIN pure.resp |->
                IF pure.resp[i] = ProviderError THEN 0 ELSE pure.resp[i][k]])

\* C7: the vector returned has the dimension of the provider's vectors and
\* is, component by component, the sum of the answers of the successful
\* calls divided by their number.
C7_MeanOfSucceeded ==
    (ChunkCall /\ pure.outcome = "returned") =>
        /\ \A v \in Vec : Len(pure.value.num) = Len(v)
        /\ pure.value.den > 0
        /\ \A k \in DOMAIN pure.value.num :
              pure.value.num[k] * Cardinality(Succeeded) = pure.value.den * SucceededSum(k)

\* Several texts, a failed call, and two successful calls with different
\* answers.
C7_Witness ==
    /\ ChunkCall
    /\ pure.outcome = "returned"
    /\ Len(pure.texts) > 1
    /\ \E i \in DOMAIN pure.resp : pure.resp[i] = ProviderError
    /\ \E i, j \in Succeeded : pure.resp[i] # pure.resp[j]

\* C8: with an embedding of norm zero on either side _calculate_similarity
\* returns 0.
C8_ZeroNormIsZero ==
    (/\ pure.op = "_calculate_similarity"
     /\ \/ Dot(pure.embedding1.num, pure.embedding1.num) = 0
        \/ Dot(pure.embedding2.num, pure.embedding2.num) = 0) =>
        pure.value = Ratio(0, 1)

RankingReturned ==
    /\ result.op = "compare_to_archetypes"
    /\ result.outcome = "returned"
    /\ "archetype_similarities" \in DOMAIN result.value

\* The archetype names in ascending (lexicographic) order.
ArchetypesByName ==
    <<"calling_station", "loose_passive", "maniac", "rock", "tight_aggressive", "tricky">>

NameBefore(a, b) ==
    \E i, j \in DOMAIN ArchetypesByName :
        i < j /\ ArchetypesByName[i] = a /\ ArchetypesByName[j] = b

\* C9: in a returned ranking no archetype is followed by one of strictly
\* greater similarity, and of two archetypes of equal similarity the one
\* whose name is smaller comes first.
C9_RankingOrder ==
    RankingReturned =>
        \A i, j \in DOMAIN result.value.archetype_similarities :
            i < j =>
                LET a == result.value.archetype_similarities[i]
                    b == result.value.archetype_similarities[j]
                IN  /\ ~SimLt(a.similarity, b.similarity)
                    /\ (~IsNaN(a.similarity) /\ a.similarity = b.similarity) =>
                          NameBefore(a.archetype, b.archetype)

\* C10: a returned ranking holds every archetype of the catalogue exactly
\* once, best_match is its first archetype, best_match_score that
\* archetype's similarity, and no archetype has a strictly greater one.
C10_BestMatch ==
    RankingReturned =>
        LET ranking == result.value.archetype_similarities
        IN  /\ Len(ranking) = Len(Archetypes)
            /\ \A k \in DOMAIN Archetypes :
                  Cardinality({i \in DOMAIN ranking : ranking[i].archetype = Archetypes[k]}) = 1
            /\ result.value.best_match = ranking[1].archetype
            /\ result.value.best_match_score = ranking[1].similarity
            /\ \A i \in DOMAIN ranking :
                  ~SimLt(result.value.best_match_score, ranking[i].similarity)

DocsOf(col, player_id) ==
    {i \in DOMAIN col : col[i].metadata.player_id = player_id}

DocsWith(col, player_id, key, v) ==
    {i \in DocsOf(col, player_id) : col[i].metadata[key] = v}

Labels == {"raise", "fold", "call", "", "unknown", "confident", "frustrated"}

\* The rule of the statistics for one collection: the total is the number
\* of the participant's documents, a label has an entry exactly when a
\* document carries it, the entry is the number of those documents, and
\* its percentage is count / total x 100.
StatisticsRule(col, player_id, key, total, counts, percentages) ==
    /\ total = Cardinality(DocsOf(col, player_id))
    /\ DOMAIN percentages = DOMAIN counts
    /\ DOMAIN counts \subseteq Labels
    /\ \A v \in Labels :
          LET n == Cardinality(DocsWith(col, player_id, key, v))
          IN  IF n = 0
              THEN v \notin DOMAIN counts
              ELSE /\ v \in DOMAIN counts
                   /\ counts[v] = n
                   /\ percentages[v].den > 0
                   /\ percentages[v].num * total = n * 100 * percentages[v].den

\* C12: get_player_statistics(P) reports the number of P's action documents,
\* per action type the number of those documents and count / total x 100,
\* and the same for P's chat documents and their sentiments; with no
\* document there is no entry, hence no percentage other than 0; with one
\* raise action and one confident chat line the statistics are
\* total_actions 1, {raise: 1}, total_messages 1, {confident: 1}.
C12_Statistics ==
    result.op = "get_player_statistics" =>
        LET st == result.value
            P == result.player_id
        IN  /\ StatisticsRule(actions_collection, P, "action", st.total_actions,
                              st.action_counts, st.action_percentages)
            /\ StatisticsRule(chat_collection, P, "sentiment", st.total_messages,
                              st.sentiment_counts, st.sentiment_percentages)
            /\ (/\ Cardinality(DocsOf(actions_collection, P)) = 1
                /\ Cardinality(DocsWith(actions_collection, P, "action", "raise")) = 1
                /\ Cardinality(DocsOf(chat_collection, P)) = 1
                /\ Cardinality(DocsWith(chat_collection, P, "sentiment", "confident")) = 1) =>
                    /\ st.total_actions = 1
                    /\ st.action_counts = [a \in {"raise"} |-> 1]
                    /\ st.total_messages = 1
                    /\ st.sentiment_counts = [m \in {"confident"} |-> 1]

\* Statistics over three actions, two of them raises and one without a
\* type, and two chat lines of different sentiment.
C12_Witness ==
    /\ result.op = "get_player_statistics"
    /\ result.value.total_actions = 3
    /\ DOMAIN result.value.action_counts = {"raise", ""}
    /\ result.value.action_counts["raise"] = 2
    /\ result.value.total_messages = 2
    /\ DOMAIN result.value.sentiment_counts = {"confident", "frustrated"}

\* C13: a get_player_statistics(P) call that follows an earlier one for P
\* reports the totals of the index as it is at this call, whatever the
\* earlier call reported.
C13_NeverCached ==
    (/\ result.op = "get_player_statistics"
     /\ previous.op = "get_player_statistics"
     /\ previous.player_id = result.player_id) =>
        /\ result.value.total_actions
              = Cardinality(DocsOf(actions_collection, result.player_id))
        /\ result.value.total_messages
              = Cardinality(DocsOf(chat_collection, result.player_id))

\* Documents of the participant were indexed between the two calls.
C13_Witness ==
    /\ result.op = "get_player_statistics"
    /\ previous.op = "get_player_statistics"
    /\ previous.player_id = result.player_id
    /\ previous.value.total_actions > 0
    /\ previous.value.total_actions < result.value.total_actions
    /\ previous.value.total_messages < result.value.total_messages

TraitQueryReturned ==
    /\ result.op \in {"query_player_actions_by_trait", "query_player_chat_by_trait"}
    /\ result.outcome = "returned"

\* The collection the last trait query searched.
Queried ==
    IF result.op = "query_player_actions_by_trait"
    THEN actions_collection ELSE chat_collection

\* The participant's documents that are not in the evidence list.
LeftOut == {i \in DocsOf(Queried, result.player_id) :
               \A j \in DOMAIN result.ids : result.ids[j] # Queried[i].id}

GameIds == <<"g1", "g2", "g3", "unknown">>

GameRank(game_id) == CHOOSE r \in DOMAIN GameIds : GameIds[r] = game_id

IdBefore(a, b) ==
    \/ GameRank(a[1]) < GameRank(b[1])
    \/ a[1] = b[1] /\ a[3] < b[3]

\* C15: in an evidence list, of two entries at equal distance the one with
\* the smaller document id comes first.
C15_TiesById ==
    TraitQueryReturned =>
        \A i, j \in DOMAIN result.value :
            (i < j /\ result.value[i].distance = result.value[j].distance) =>
                IdBefore(result.ids[i], result.ids[j])

\* C17: a trait query for a participant without a document in the
\* collection returns the empty list, unless the provider call for the
\* query text failed; get_player_statistics for a participant without
\* documents returns zero totals and empty count maps.
C17_EmptyFilter ==
    /\ (/\ result.op \in {"query_player_actions_by_trait", "query_player_chat_by_trait"}
        /\ DocsOf(Queried, result.player_id) = {}) =>
            \/ result.outcome = "returned" /\ result.value = <<>>
            \/ result.outcome = "raised" /\ result.error = ProviderError
    /\ (/\ result.op = "get_player_statistics"
        /\ DocsOf(actions_collection, result.player_id) = {}
        /\ DocsOf(chat_collection, result.player_id) = {}) =>
            /\ result.outcome = "returned"
            /\ result.value.total_actions = 0
            /\ result.value.total_messages = 0
            /\ DOMAIN result.value.action_counts = {}
            /\ DOMAIN result.value.action_percentages = {}
            /\ DOMAIN result.value.sentiment_counts = {}
            /\ DOMAIN result.value.sentiment_percentages = {}

\* A trait query answered with the empty list over a collection that holds
\* documents of another participant.
C17_Witness ==
    /\ TraitQueryReturned
    /\ result.value = <<>>
    /\ Queried # <<>>

\* An evidence entry: text, metadata and distance, the text and the whole
\* metadata being those of a document of the participant in `col`.
EvidenceEntry(e, col, player_id) ==
    /\ DOMAIN e = {"document", "metadata", "distance"}
    /\ e.distance >= 0
    /\ \E i \in DocsOf(col, player_id) :
          e.document = col[i].document /\ e.metadata = col[i].metadata

FailedCalls ==
    {i \in DOMAIN result.answers.player :
        result.answers.player[i] = ProviderError}

\* C18: a failed embedding or completion call is made a second time, and a
\* request goes on past a call that failed: analyze_player_personality
\* returns (with that trait's example missing) whichever call failed, and a
\* comparison that skipped failed chunks has made each of them twice.
C18_RetryThenPartial ==
    /\ result.op = "analyze_player_personality" => result.outcome = "returned"
    /\ (result.op = "compare_to_archetypes" /\ result.outcome = "returned"
        /\ result.calls > 0) =>
          result.calls >= Len(result.answers.player) + Cardinality(FailedCalls)
                          + Len(result.answers.archetypes)


\* A source record that has the fields every document needs: the
\* participant and a text to embed.
Complete(record, text_key) ==
    /\ "player_id" \in DOMAIN record
    /\ text_key \in DOMAIN record
    /\ record[text_key] # <<>>

\* C19: once index_game_data has run to its end, of the records of the
\* files that could be read exactly the complete ones have a document: a
\* record missing a required field has contributed none, and every other
\* record is indexed.
C19_MalformedSkipped ==
    (result.op = "index_game_data" /\ result.outcome = "returned") =>
        \A g \in DOMAIN game_data :
            LET game == game_data[g]
                game_id == Get(game, "game_id", "unknown")
                as == Get(game, "actions", <<>>)
                ms == Get(game, "chat_messages", <<>>)
            IN  /\ "game_id" \in DOMAIN game
                /\ \A i \in DOMAIN as :
                      Complete(as[i], "text_description")
                          <=> HasId(actions_collection, <<game_id, "action", i - 1>>)
                /\ \A i \in DOMAIN ms :
                      Complete(ms[i], "message")
                          <=> HasId(chat_collection, <<game_id, "message", i - 1>>)


NonZero(embedding) == Dot(embedding.num, embedding.num) # 0

\* C20: for two non-zero vectors the similarity that _calculate_similarity
\* computes lies in [-1, 1], and for a non-zero vector and itself it is 1.
C20_CosineRange ==
    (/\ pure.op = "_calculate_similarity"
     /\ NonZero(pure.embedding1)
     /\ NonZero(pure.embedding2)) =>
        /\ pure.float64.sign # 0 => Leq64(pure.float64.size, One64)
        /\ pure.embedding1 = pure.embedding2 =>
              pure.float64.sign = 1 /\ pure.float64.size = One64


C22_AggregationLinearity ==
    pure.op = "aggregate_both_ways" =>
        /\ pure.together.outcome = "returned"
        /\ pure.together.value = pure.apart


\* The texts of the call whose own estimate is within the maximum, and
\* those that are split instead.
ShortTexts == SelectSeq(pure.texts, LAMBDA t : estimate_tokens(t) <= pure.max)

LongTexts == SelectSeq(pure.texts, LAMBDA t : estimate_tokens(t) > pure.max)

\* A way of cutting a list into runs: `cuts` holds the positions after
\* which a run ends.  The run with number g, and the estimates of its texts
\* summed.
Run(texts, cuts, g) ==
    LET members == {i \in DOMAIN texts : Cardinality({c \in cuts : c < i}) = g - 1}
        first == CHOOSE i \in members : \A j \in members : i <= j
        last == CHOOSE i \in members : \A j \in members : j <= i
    IN  SubSeq(texts, first, last)

Estimate(texts) == SumSeq([i \in DOMAIN texts |-> estimate_tokens(texts[i])])

RECURSIVE IsSubSeq(_, _)
IsSubSeq(a, b) ==
    IF a = <<>> THEN TRUE
    ELSE IF b = <<>> THEN FALSE
    ELSE IF Head(a) = Head(b) THEN IsSubSeq(Tail(a), Tail(b))
    ELSE IsSubSeq(a, Tail(b))

\* C23: the texts within the maximum are packed in input order into runs,
\* each joined into one chunk: the estimates of a run sum to at most the
\* maximum, and the text after a run would have taken the sum above it.
\* The chunks are emitted in that order, and they are all the chunks when
\* no text is split.
C23_GreedyPacking ==
    (ChunkCall /\ ShortTexts # <<>>) =>
        \E cuts \in SUBSET (1..(Len(ShortTexts) - 1)) :
            LET runs == [g \in 1..(Cardinality(cuts) + 1) |-> Run(ShortTexts, cuts, g)]
                packed == [g \in DOMAIN runs |-> Join(runs[g])]
            IN  /\ \A g \in DOMAIN runs : Estimate(runs[g]) <= pure.max
                /\ \A g \in 1..(Len(runs) - 1) :
                      Estimate(runs[g]) + estimate_tokens(runs[g + 1][1]) > pure.max
                /\ IsSubSeq(packed, pure.chunks)
                /\ LongTexts = <<>> => pure.chunks = packed

\* A chunk is closed by a text that no longer fits.
C23_Witness ==
    /\ ChunkCall
    /\ LongTexts = <<>>
    /\ Len(pure.chunks) > 1
    /\ Estimate(pure.texts) > pure.max


\* The words of a list of strings, string after string.
Words(strings) == Flatten([i \in DOMAIN strings |-> Split(strings[i])])

\* C24: when every text of the call exceeds the maximum on its own, the
\* words of the sub-chunks in emission order are the words of the texts in
\* their order: no word is split, dropped, duplicated or reordered.
C24_WordsPreserved ==
    (ChunkCall /\ LongTexts # <<>> /\ ShortTexts = <<>>) =>
        Words(pure.chunks) = Words(pure.texts)

\* An over-long text of several words is emitted as several sub-chunks.
C24_Witness ==
    /\ ChunkCall
    /\ Len(pure.texts) = 1
    /\ estimate_tokens(pure.texts[1]) > pure.max
    /\ Len(Split(pure.texts[1])) > 1
    /\ Len(pure.chunks) > 1
    /\ \A c \in DOMAIN pure.chunks : pure.chunks[c] # <<>>


\* The chunks hold the texts `texts`, in order and each text once, whole
\* and joined with its neighbours of `texts`, and between them the words
\* `words`, in order and each word once.
RECURSIVE Represents(_, _, _)
Represents(chunks, texts, words) ==
    IF chunks = <<>> THEN texts = <<>> /\ words = <<>>
    ELSE \/ \E k \in 1..Len(texts) :
                /\ Head(chunks) = Join(SubSeq(texts, 1, k))
                /\ Represents(Tail(chunks), SubSeq(texts, k + 1, Len(texts)), words)
         \/ LET w == Split(Head(chunks))
            IN  /\ Len(w) <= Len(words)
                /\ SubSeq(words, 1, Len(w)) = w
                /\ Represents(Tail(chunks), texts,
                              SubSeq(words, Len(w) + 1, Len(words)))

C28_NoEmptyChunk ==
    (ChunkCall /\ \A t \in DOMAIN pure.texts : pure.texts[t] # <<>>) =>
        \A c \in DOMAIN pure.chunks : pure.chunks[c] # <<>>


(***************************************************************************)
(* compare_to_archetypes over an index whose hand summary carries a text   *)
(* of its own: the participant of the action, either participant chatting  *)
(* and either participant winning the hand.                                *)
(***************************************************************************)
SummaryText == Word(5)

CompareCorpora ==
    {<<GameDoc("g1", <<ActionEntry("P1", ta)>>, <<ChatEntry(pc, TextB)>>,
               SummaryEntry(w, SummaryText))>> :
        ta \in DocTexts, pc \in Players, w \in Players}

NextCompare ==
    \/ Construct(CompareCorpora) /\ UNCHANGED previous
    \/ IndexGameData(StoredVecs) /\ UNCHANGED previous
    \/ Ready /\ CompareToArchetypes(Players, StoredVecs) /\ UNCHANGED previous

SpecCompare == Init /\ [][NextCompare]_vars

\* How often `text` is the document of a document of the collection that
\* carries the participant in its player_id metadata.
OwnCount(col, player_id, text) ==
    Cardinality({i \in DOMAIN col :
                    /\ "player_id" \in DOMAIN col[i].metadata
                    /\ col[i].metadata.player_id = player_id
                    /\ col[i].document = text})

\* C25: the texts compare_to_archetypes aggregates for a participant are
\* the documents of the participant in the actions and chat collections,
\* each as often as it is stored there, and the text of a document of the
\* summaries collection is never among them, also when the participant won
\* the hand.
C25_DocumentsOnly ==
    result.op = "compare_to_archetypes" =>
        LET texts == result.all_player_texts
        IN  /\ \A t \in {texts[i] : i \in DOMAIN texts}
                   \cup {actions_collection[i].document : i \in DOMAIN actions_collection}
                   \cup {chat_collection[i].document : i \in DOMAIN chat_collection} :
                  Cardinality({i \in DOMAIN texts : texts[i] = t})
                      = OwnCount(actions_collection, result.player_id, t)
                        + OwnCount(chat_collection, result.player_id, t)
            /\ \A s \in DOMAIN summary_collection :
                  \A i \in DOMAIN texts : texts[i] # summary_collection[s].document

\* The participant won the hand, the summary is indexed, and the
\* participant's texts are aggregated and ranked.
C25_Witness ==
    /\ result.op = "compare_to_archetypes"
    /\ result.outcome = "returned"
    /\ Len(result.all_player_texts) = 2
    /\ \E s \in DOMAIN summary_collection :
          summary_collection[s].metadata.winner = result.player_id


(***************************************************************************)
(* _generate_semantic_analysis_prompt.  The prompt is kept as its lines,   *)
(* each line with the values its f-string interpolates; a formatted number *)
(* is kept as its characters.                                              *)
(***************************************************************************)
DigitChars == <<"0", "1", "2", "3", "4", "5", "6", "7", "8", "9">>

\* str(n) for a natural number.
RECURSIVE Decimal(_)
Decimal(n) ==
    IF n < 10 THEN <<DigitChars[n + 1]>>
    ELSE Decimal(n \div 10) \o <<DigitChars[(n % 10) + 1]>>

\* The last `places` digits of n, with leading zeros.
RECURSIVE Fraction(_, _)
Fraction(n, places) ==
    IF places = 0 THEN <<>>
    ELSE Fraction(n \div 10, places - 1) \o <<DigitChars[(n % 10) + 1]>>

\* f"{x:.{places}f}" for x = num / den, den > 0: x rounded to `places`
\* decimals, ties to even.
FormatFixed(num, den, places) ==
    LET size == (IF num < 0 THEN -num ELSE num) * (10 ^ places)
        floor == size \div den
        rest == size % den
        scaled == IF 2 * rest > den \/ (2 * rest = den /\ floor % 2 = 1)
                  THEN floor + 1 ELSE floor
    IN  (IF num < 0 THEN <<"-">> ELSE <<>>)
        \o Decimal(scaled \div (10 ^ places))
        \o (IF places > 0 THEN <<".">> ELSE <<>>)
        \o Fraction(scaled % (10 ^ places), places)

\* trait.upper() on the names of the catalogue.
Upper(trait) ==
    CASE trait = "aggression" -> "AGGRESSION"
      [] trait = "bluff_tendency" -> "BLUFF_TENDENCY"
      [] trait = "risk_tolerance" -> "RISK_TOLERANCE"
      [] trait = "adaptability" -> "ADAPTABILITY"
      [] trait = "tilt_prone" -> "TILT_PRONE"
      [] trait = "patience" -> "PATIENCE"

Blank == [kind |-> "blank"]

Text(text) == [kind |-> "text", text |-> text]

\* The keys of a counting dict in its order: the values of `key` in the
\* order they are first seen.
RECURSIVE KeysInOrder(_, _, _)
KeysInOrder(metadatas, key, seen) ==
    IF metadatas = <<>> THEN seen
    ELSE LET v == Get(Head(metadatas), key, "unknown")
         IN  KeysInOrder(Tail(metadatas), key,
                         IF \E k \in DOMAIN seen : seen[k] = v THEN seen
                         ELSE Append(seen, v))

\* "- {name}: {percentage:.1f}%" for every entry of a percentages dict.
PercentageLines(percentages, keys) ==
    [k \in DOMAIN keys |->
        [kind |-> "percentage", name |-> keys[k],
         value |-> FormatFixed(percentages[keys[k]].num, percentages[keys[k]].den, 1)]]

ActionLinesFromZero(actions) ==
    [i \in DOMAIN actions |->
        [kind |-> "action",
         number |-> Decimal(i - 1),
         document |-> actions[i].document,
         game_stage |-> Get(actions[i].metadata, "game_stage", "unknown"),
         action |-> Get(actions[i].metadata, "action", "unknown"),
         amount |-> Decimal(Get(actions[i].metadata, "amount", 0)),
         similarity |-> FormatFixed(1 - actions[i].distance, 1, 2)]]

\* for i, action in enumerate(actions): f"{i+1}. {action['document']} (...)"
ActionLines(actions) ==
    [i \in DOMAIN actions |->
        [kind |-> "action",
         number |-> Decimal(i),
         document |-> actions[i].document,
         game_stage |-> Get(actions[i].metadata, "game_stage", "unknown"),
         action |-> Get(actions[i].metadata, "action", "unknown"),
         amount |-> Decimal(Get(actions[i].metadata, "amount", 0)),
         similarity |-> FormatFixed(1 - actions[i].distance, 1, 2)]]

\* for i, message in enumerate(chat): f"{i+1}. {message['document']} (...)"
MessageLines(chat) ==
    [i \in DOMAIN chat |->
        [kind |-> "message",
         number |-> Decimal(i),
         document |-> chat[i].document,
         sentiment |-> Get(chat[i].metadata, "sentiment", "unknown"),
         associated_action |-> Get(chat[i].metadata, "associated_action", "unknown"),
         similarity |-> FormatFixed(1 - chat[i].distance, 1, 2)]]

\* The lines of one trait of the loop over trait_examples.
TraitLines(trait, examples) ==
    <<Blank, [kind |-> "trait", name |-> Upper(trait)]>>
    \o (IF examples.actions # <<>>
        THEN <<Text("Actions:")>> \o ActionLines(examples.actions)
        ELSE <<Text("No actions found for this trait.")>>)
    \o (IF examples.chat # <<>>
        THEN <<Text("Chat messages:")>> \o MessageLines(examples.chat)
        ELSE <<Text("No chat messages found for this trait.")>>)

\* The closing instructions.
Instructions ==
    <<Blank,
      Text("Based on the above data, analyze the player's poker personality. Consider the following aspects:"),
      Text("1. Aggression: Tendency to bet and raise rather than check and call"),
      Text("2. Bluff tendency: Willingness to represent hands they don't have"),
      Text("3. Risk tolerance: Comfort with variance and willingness to gamble"),
      Text("4. Adaptability: How quickly they adjust to opponents' strategies"),
      Text("5. Tilt prone: Tendency to play emotionally after setbacks"),
      Text("6. Patience: Willingness to wait for premium hands"),
      Blank,
      Text("Finally, identify which poker archetype (tight_aggressive, loose_passive, maniac, rock, tricky, or calling_station) best matches this player's style.")>>

\* The prompt for trait_examples, whose keys are in catalogue order, and
\* player_stats, whose percentages dicts list their keys as action_keys
\* and sentiment_keys.
generate_semantic_analysis_prompt(player_id, trait_examples, player_stats, action_keys, sentiment_keys) ==
    <<[kind |-> "intro", player_id |-> player_id],
      Blank,
      Text("PLAYER STATISTICS:"),
      [kind |-> "total_actions", value |-> Decimal(player_stats.total_actions)]>>
    \o (IF action_keys # <<>>
        THEN <<Text("Action percentages:")>>
             \o PercentageLines(player_stats.action_percentages, action_keys)
        ELSE <<>>)
    \o <<Blank,
         [kind |-> "total_messages", value |-> Decimal(player_stats.total_messages)]>>
    \o (IF sentiment_keys # <<>>
        THEN <<Text("Sentiment percentages:")>>
             \o PercentageLines(player_stats.sentiment_percentages, sentiment_keys)
        ELSE <<>>)
    \o <<Blank, Text("PERSONALITY TRAIT EXAMPLES:")>>
    \o Flatten([t \in DOMAIN TraitNames |->
                   TraitLines(TraitNames[t], trait_examples[TraitNames[t]])])
    \o Instructions

\* The call of line 167 for the trait examples and statistics that
\* analyze_player_personality has gathered.
GenerateSemanticAnalysisPrompt(ids, vecs) ==
    /\ pure.op = "none"
    /\ \E player_id \in ids :
        \E v \in AnalysisResults(player_id, vecs) :
            LET player_actions == Metadatas(CollectionGet(actions_collection, player_id))
                player_chat == Metadatas(CollectionGet(chat_collection, player_id))
            IN  pure' = [op |-> "_generate_semantic_analysis_prompt",
                         player_id |-> player_id,
                         trait_examples |-> v.trait_examples,
                         player_stats |-> v.statistics,
                         action_keys |-> KeysInOrder(player_actions, "action", <<>>),
                         sentiment_keys |-> KeysInOrder(player_chat, "sentiment", <<>>),
                         prompt |-> generate_semantic_analysis_prompt(
                                        player_id, v.trait_examples, v.statistics,
                                        KeysInOrder(player_actions, "action", <<>>),
                                        KeysInOrder(player_chat, "sentiment", <<>>))]
    /\ UNCHANGED <<game_data, actions_collection, chat_collection,
                   summary_collection, result, previous>>

\* The call once more with the arguments of the call before.
GenerateSemanticAnalysisPromptAgain ==
    /\ pure.op = "_generate_semantic_analysis_prompt"
    /\ previous.op = "none"
    /\ previous' = pure
    /\ pure' = [pure EXCEPT !.prompt =
                   generate_semantic_analysis_prompt(
                       pure.player_id, pure.trait_examples, pure.player_stats,
                       pure.action_keys, pure.sentiment_keys)]
    /\ UNCHANGED <<game_data, actions_collection, chat_collection,
                   summary_collection, result>>

\* Two actions and a chat message of P1, none of P0.
PromptCorpora ==
    {<<GameDoc("g1", <<ActionEntry("P1", TextA), ActionEntry("P1", TextB)>>,
               <<ChatEntry("P1", TextA)>>, SummaryEntry("P1", TextA))>>}

NextPrompt ==
    \/ pure.op = "none" /\ Construct(PromptCorpora) /\ UNCHANGED previous
    \/ pure.op = "none" /\ IndexGameData(IndexVecs) /\ UNCHANGED previous
    \/ GenerateSemanticAnalysisPrompt(Players, StoredVecs)
    \/ GenerateSemanticAnalysisPromptAgain

SpecPrompt == Init /\ [][NextPrompt]_vars

PromptCall == pure.op = "_generate_semantic_analysis_prompt"

\* The positions of the trait headers in the prompt, and the lines of the
\* k-th trait: those after its header up to the next blank line.
TraitHeaders(prompt) == SelectSeq([i \in DOMAIN prompt |-> i],
                                  LAMBDA i : prompt[i].kind = "trait")

TraitSection(prompt, k) ==
    LET from == TraitHeaders(prompt)[k] + 1
        next == CHOOSE i \in from..Len(prompt) :
                    /\ prompt[i].kind = "blank"
                    /\ \A j \in from..(i - 1) : prompt[j].kind # "blank"
    IN  SubSeq(prompt, from, next - 1)

\* A list of the prompt: its title and then one line per entry of the
\* evidence list, in its order, numbered from 1 and showing 1 - distance
\* with two decimals; or the line that says the list is empty.
ListedAs(lines, evidence, kind, title, none) ==
    IF evidence = <<>> THEN lines = <<Text(none)>>
    ELSE /\ Len(lines) = Len(evidence) + 1
         /\ lines[1] = Text(title)
         /\ \A j \in DOMAIN evidence :
               /\ lines[j + 1].kind = kind
               /\ lines[j + 1].number = Decimal(j)
               /\ lines[j + 1].document = evidence[j].document
               /\ lines[j + 1].similarity = FormatFixed(1 - evidence[j].distance, 1, 2)

\* C26: the prompt has one header per trait, upper-cased and in catalogue
\* order; under each header come the Actions list and then the Chat
\* messages list of that trait, their entries in the order of the evidence
\* lists, numbered from 1 and showing 1 - distance; and a call with the
\* participant, statistics and evidence of the call before builds the
\* prompt of the call before.
C26_PromptLayout ==
    PromptCall =>
        LET prompt == pure.prompt
            headers == TraitHeaders(prompt)
        IN  /\ [k \in DOMAIN headers |-> prompt[headers[k]].name]
                   = [k \in DOMAIN TraitNames |-> Upper(TraitNames[k])]
            /\ \A k \in DOMAIN TraitNames :
                  LET section == TraitSection(prompt, k)
                      examples == pure.trait_examples[TraitNames[k]]
                      n == IF examples.actions = <<>> THEN 1
                           ELSE Len(examples.actions) + 1
                  IN  /\ Len(section) > n
                      /\ ListedAs(SubSeq(section, 1, n), examples.actions, "action",
                                  "Actions:", "No actions found for this trait.")
                      /\ ListedAs(SubSeq(section, n + 1, Len(section)), examples.chat,
                                  "message", "Chat messages:",
                                  "No chat messages found for this trait.")
            /\ (/\ previous.op = "_generate_semantic_analysis_prompt"
                /\ previous.player_id = pure.player_id
                /\ previous.trait_examples = pure.trait_examples
                /\ previous.player_stats = pure.player_stats)
                   => previous.prompt = prompt

\* A prompt whose first trait lists two actions at different distances and
\* a chat message.
C26_Witness ==
    /\ PromptCall
    /\ Len(pure.trait_examples["aggression"].actions) = 2
    /\ pure.trait_examples["aggression"].actions[1].distance
           # pure.trait_examples["aggression"].actions[2].distance
    /\ Len(pure.trait_examples["aggression"].chat) = 1
    /\ previous.op = "_generate_semantic_analysis_prompt"


(***************************************************************************)
(* solver_tool.determine_action.  Numbers between 0 and 1 are kept in      *)
(* hundredths (traits, hand strength, random.random()) and the effective   *)
(* strength in ten-thousandths.  A poker state is kept as its board        *)
(* length and its legal actions.                                           *)
(***************************************************************************)
ActionEnum == <<"Fold", "Check", "Call", "Raise">>

\* pk.Action(action, amount=0)
Action(action, amount) == [action |-> action, amount |-> amount]

\* What str(pk.Action(a)).lower() can be, as its words: the bare name, the
\* fields of the object, or the default rendering of an object, which does
\* not show the fields.  The pokers library decides; player.py (141-142,
\* 184) reads the name from action.action because the rendering of the
\* object does not give it.
Renderings == {"name", "fields", "object"}

LowerName(action) ==
    CASE action = "Fold" -> "fold"
      [] action = "Check" -> "check"
      [] action = "Call" -> "call"
      [] action = "Raise" -> "raise"

ActionStr(rendering, action) ==
    CASE rendering = "name" -> <<LowerName(action)>>
      [] rendering = "fields" ->
            <<"action", "{", "action:", LowerName(action), ",", "amount:", "0.0", "}">>
      [] rendering = "object" -> <<"<builtins.action", "object", "at", "0x", ">">>

\* `word in action_str` on a rendering.
Contains(action_str, word) == \E i \in DOMAIN action_str : action_str[i] = word

\* personalities.get_game_stage
get_game_stage(state) ==
    IF state.board = 3 THEN "flop"
    ELSE IF state.board = 4 THEN "turn"
    ELSE IF state.board = 5 THEN "river"
    ELSE "preflop"

RemoveAt(list, idx) == SubSeq(list, 1, idx - 1) \o SubSeq(list, idx + 1, Len(list))

\* for idx in fold_indices: if len(legals) > 1: legals.pop(idx);
\* legal_types.pop(idx).  An index past the end of the list is not popped
\* here; with one Fold among the legal actions no index is past the end.
RECURSIVE PopFolds(_, _, _)
PopFolds(c, fold_indices, k) ==
    IF k > Len(fold_indices) THEN c
    ELSE IF Len(c.legals) > 1 /\ fold_indices[k] <= Len(c.legals)
    THEN PopFolds([legals |-> RemoveAt(c.legals, fold_indices[k]),
                   legal_types |-> RemoveAt(c.legal_types, fold_indices[k])],
                  fold_indices, k + 1)
    ELSE PopFolds(c, fold_indices, k + 1)

\* legals and legal_types when the weights are computed: the legal actions
\* of the state and their renderings, after the preflop removal of Fold.
Candidates(state, rendering) ==
    LET legals == state.legal_actions
        legal_types == [i \in DOMAIN legals |-> ActionStr(rendering, legals[i])]
        fold_indices == SelectSeq([i \in DOMAIN legal_types |-> i],
                                  LAMBDA i : Contains(legal_types[i], "fold"))
    IN  IF /\ get_game_stage(state) = "preflop"
           /\ \E i \in DOMAIN legal_types : legal_types[i] = <<"fold">>
           /\ Len(legals) > 1
           /\ fold_indices # <<>>
        THEN PopFolds([legals |-> legals, legal_types |-> legal_types], fold_indices, 1)
        ELSE [legals |-> legals, legal_types |-> legal_types]

Max(a, b) == IF a >= b THEN a ELSE b

\* effective_strength after the preflop floor, the bluff boost and the tilt
\* adjustment, for the random numbers draws.bluff, draws.tilt and
\* draws.adjustment.
EffectiveStrength(state, hand_strength, personality, draws) ==
    LET floored ==
            IF get_game_stage(state) = "preflop"
            THEN IF "patience" \in DOMAIN personality
                 THEN Max(6000 - 30 * (100 - personality.patience), 100 * hand_strength)
                 ELSE Max(6000, 100 * hand_strength)
            ELSE 100 * hand_strength
        bluff_boost ==
            IF "adaptability" \in DOMAIN personality /\ personality.adaptability > 60
            THEN 2000 + 20 * personality.adaptability
            ELSE 3000
        bluffed ==
            IF draws.bluff < personality.bluff_tendency
            THEN Min(10000, floored + bluff_boost)
            ELSE floored
    IN  IF "tilt_prone" \in DOMAIN personality /\ 2 * draws.tilt < personality.tilt_prone
        THEN Max(0, Min(10000, bluffed + (draws.adjustment - 50) * personality.tilt_prone))
        ELSE bluffed

\* The weights, in units of 1/80000.
Weights(legal_types, effective_strength, personality) ==
    [i \in DOMAIN legal_types |->
        LET action_str == legal_types[i]
            weight ==
                IF Contains(action_str, "raise") \/ Contains(action_str, "bet")
                THEN 6 * (100 + personality.aggression)
                ELSE IF Contains(action_str, "call")
                THEN 4 * (100 + Get(personality, "risk_tolerance", 50))
                ELSE IF Contains(action_str, "check")
                THEN 3 * (100 + Get(personality, "patience", 50))
                ELSE 2 * (200 - Get(personality, "risk_tolerance", 50))
        IN  IF /\ effective_strength > 7000
               /\ (Contains(action_str, "raise") \/ Contains(action_str, "bet"))
            THEN weight * 4 * (200 + personality.aggression)
            ELSE IF /\ effective_strength <= 7000
                    /\ effective_strength < 3000
                    /\ (Contains(action_str, "check") \/ Contains(action_str, "fold"))
            THEN weight * 3 * (400 - Get(personality, "risk_tolerance", 50))
            ELSE weight * 400]

\* round(num / den), ties to even, for a quotient of at most 30.
RoundHalfEven(num, den) ==
    CHOOSE k \in 0..30 :
        LET twice == Scale(num, 2, 0)
            high == Scale(den, 2 * k + 1, 0)
        IN  /\ \/ k = 0
               \/ Less(Scale(den, 2 * k - 1, 0), twice)
               \/ Scale(den, 2 * k - 1, 0) = twice /\ k % 2 = 0
            /\ \/ Less(twice, high)
               \/ twice = high /\ k % 2 = 0

\* The amount of a raise: 10 * strength_factor * aggression_factor *
\* risk_factor * tilt_factor, rounded to the nearest 5 and at least 5.  The
\* product is exact here; the code rounds it to binary64 at each step.
RaiseAmount(effective_strength, personality, draws) ==
    LET tilted == "tilt_prone" \in DOMAIN personality
                  /\ 10 * draws.bet_tilt < 3 * personality.tilt_prone
        risk == IF "risk_tolerance" \in DOMAIN personality
                THEN 200 + personality.risk_tolerance ELSE 250
        num == Times(Times(Times(Digits(2 * (10000 + 2 * effective_strength)),
                                 Digits(200 + 3 * personality.aggression)),
                           Digits(risk)),
                     Digits(IF tilted THEN 350 + 3 * draws.bet_factor ELSE 1))
        den == Times(Times(Digits(10000 * 200), Digits(250)),
                     Digits(IF tilted THEN 500 ELSE 1))
    IN  Max(5, 5 * RoundHalfEven(num, den))

\* determine_action for the random numbers `draws` and the index that
\* random.choices draws.
determine_action(state, hand_strength, personality, rendering, draws, chosen_idx) ==
    LET c == Candidates(state, rendering)
        effective_strength == EffectiveStrength(state, hand_strength, personality, draws)
        chosen_action == c.legals[chosen_idx]
    IN  IF chosen_action = "Raise"
        THEN Action(chosen_action, RaiseAmount(effective_strength, personality, draws))
        ELSE Action(chosen_action, 0)

\* The indices random.choices(range(len(legals)), weights=weights) can draw.
Choices(state, hand_strength, personality, rendering, draws) ==
    LET c == Candidates(state, rendering)
        weights == Weights(c.legal_types,
                           EffectiveStrength(state, hand_strength, personality, draws),
                           personality)
    IN  {i \in DOMAIN c.legals : weights[i] > 0}

\* The traits of three of the profiles of personalities.OPPONENT_PROFILES.
OpponentProfiles ==
    [tight_aggressive |->
        [aggression |-> 75, bluff_tendency |-> 30, risk_tolerance |-> 40,
         adaptability |-> 65, tilt_prone |-> 25, patience |-> 80],
     maniac |->
        [aggression |-> 90, bluff_tendency |-> 75, risk_tolerance |-> 85,
         adaptability |-> 40, tilt_prone |-> 70, patience |-> 15],
     rock |->
        [aggression |-> 20, bluff_tendency |-> 10, risk_tolerance |-> 15,
         adaptability |-> 25, tilt_prone |-> 15, patience |-> 90]]

\* random.random(), and the hand strength it stands for.
Uniforms == {0, 45, 99}

Draws == [bluff : Uniforms, tilt : Uniforms, adjustment : Uniforms,
          bet_tilt : {0, 99}, bet_factor : {0, 99}]

\* The legal actions of a state that is not final: any of the four, each
\* at most once.
LegalActions ==
    {SelectSeq(ActionEnum, LAMBDA a : a \in chosen) :
        chosen \in (SUBSET Range(ActionEnum)) \ {{}}}

Boards == {0, 3, 4, 5}

InitSolver ==
    /\ Fresh
    /\ \E legal_actions \in LegalActions, board \in Boards, rendering \in Renderings,
          hand_strength \in Uniforms, profile \in DOMAIN OpponentProfiles :
          pure = [op |-> "args",
                  state |-> [board |-> board, legal_actions |-> legal_actions],
                  hand_strength |-> hand_strength,
                  personality |-> OpponentProfiles[profile],
                  rendering |-> rendering]

DetermineAction ==
    /\ pure.op = "args"
    /\ \E draws \in Draws :
          \E chosen_idx \in Choices(pure.state, pure.hand_strength, pure.personality,
                                    pure.rendering, draws) :
              pure' = [pure EXCEPT !.op = "determine_action"]
                      @@ [returned |-> determine_action(pure.state, pure.hand_strength,
                                                        pure.personality, pure.rendering,
                                                        draws, chosen_idx)]
    /\ UNCHANGED <<game_data, actions_collection, chat_collection,
                   summary_collection, result, previous>>

NextSolver == DetermineAction

SpecSolver == InitSolver /\ [][NextSolver]_vars

\* C30: determine_action returns an action of a type that is legal in the
\* state, and in the preflop stage it does not return Fold when another
\* action is legal.
C30_LegalAndNoPreflopFold ==
    pure.op = "determine_action" =>
        /\ pure.returned.action \in Range(pure.state.legal_actions)
        /\ (/\ get_game_stage(pure.state) = "preflop"
            /\ Len(pure.state.legal_actions) > 1)
               => pure.returned.action # "Fold"


(***************************************************************************)
(* engine_autogen.play_hand with PlayerAgent.generate_reply.  A state of   *)
(* the pokers library is its board length, legal actions, player to act,   *)
(* final_state flag and the action that led to it; the hand in progress    *)
(* is held in `pure`.                                                      *)
(***************************************************************************)
MaxTurns == 2          \* iterations of the loop of play_hand

NoAction == [action |-> "none", amount |-> 0]

\* What state.apply_action(act) can return: the hand is over, or the other
\* player acts, on the same board after a bet or on the next cards.
ApplyAction(state, act) ==
    {[board |-> state.board, legal_actions |-> <<>>,
      current_player |-> state.current_player, final_state |-> TRUE,
      from_action |-> act],
     [board |-> state.board, legal_actions |-> <<"Fold", "Call", "Raise">>,
      current_player |-> 1 - state.current_player, final_state |-> FALSE,
      from_action |-> act],
     [board |-> IF state.board = 0 THEN 3 ELSE Min(5, state.board + 1),
      legal_actions |-> <<"Check", "Raise">>,
      current_player |-> 1 - state.current_player, final_state |-> FALSE,
      from_action |-> act]}

\* The random numbers of one get_action call.
HandDraws ==
    {[bluff |-> 0, tilt |-> 0, adjustment |-> 99, bet_tilt |-> 0, bet_factor |-> 99],
     [bluff |-> 99, tilt |-> 99, adjustment |-> 0, bet_tilt |-> 99, bet_factor |-> 0]}

\* get_action(state, agent): determine_action on a random hand strength
\* and the agent's personality.
get_action(state, personality, rendering) ==
    {determine_action(state, hand_strength, personality, rendering, draws, chosen_idx) :
        <<hand_strength, draws, chosen_idx>> \in
            {t \in {0, 99} \X HandDraws \X (1..Len(state.legal_actions)) :
                t[3] \in Choices(state, t[1], personality, rendering, t[2])}}

\* What the chat completion can answer, as the action words the message
\* holds and whether it holds the word "play"; or the call raises.
LlmError == [error |-> "APIError"]

LlmAnswers ==
    {LlmError,
     [mentions |-> {}, play |-> FALSE],
     [mentions |-> {}, play |-> TRUE],
     [mentions |-> {"fold", "raise"}, play |-> FALSE]}

ReplyActionRedrawn(config, solver_action) == solver_action

\* Lines 117-125: the action of the reply is the one passed in config, and
\* one drawn from the solver only when config carries none.
ReplyAction(config, solver_action) ==
    IF config # <<>> /\ "action" \in DOMAIN config
    THEN config.action
    ELSE solver_action

\* Lines 274-413: the message of the completion, or a fallback phrase on
\* the action name when the completion raises; a message that does not
\* hold the action name gets it in place of "play" or as a prefix.
ChatMessage(answer, action) ==
    LET action_name == LowerName(action.action)
        chat_message == IF answer = LlmError
                        THEN [mentions |-> {action_name}, play |-> FALSE]
                        ELSE answer
    IN  IF action_name \notin chat_message.mentions
        THEN IF chat_message.play
             THEN [mentions |-> chat_message.mentions \cup {action_name}, play |-> FALSE]
             ELSE [mentions |-> chat_message.mentions \cup {action_name},
                   play |-> chat_message.play]
        ELSE chat_message

\* generate_reply(messages, sender, config): the response object, with the
\* action it is about.
generate_reply(config, solver_action, answer) ==
    LET action == ReplyAction(config, solver_action)
    IN  [action |-> action, chat |-> ChatMessage(answer, action)]

InitHand ==
    /\ Fresh
    /\ \E rendering \in Renderings, p0 \in {"maniac", "rock"},
          p1 \in {"tight_aggressive"}, first \in {0, 1} :
          pure = [op |-> "play_hand",
                  rendering |-> rendering,
                  personality |-> <<OpponentProfiles[p0], OpponentProfiles[p1]>>,
                  trace |-> <<[board |-> 0, legal_actions |-> <<"Fold", "Call", "Raise">>,
                               current_player |-> first, final_state |-> FALSE,
                               from_action |-> NoAction]>>,
                  responses |-> <<>>,
                  chat_history |-> <<>>]

\* One iteration of the loop of play_hand.
Turn ==
    /\ pure.op = "play_hand"
    /\ Len(pure.trace) <= MaxTurns
    /\ LET state == pure.trace[Len(pure.trace)]
           p == state.current_player
           personality == pure.personality[p + 1]
       IN  /\ ~state.final_state
           /\ \E act \in get_action(state, personality, pure.rendering),
                 solver_action \in get_action(state, personality, pure.rendering),
                 answer \in LlmAnswers :
               \E new_state \in ApplyAction(state, act) :
                 LET response == generate_reply([action |-> act], solver_action, answer)
                 IN  pure' = [pure EXCEPT
                                 !.responses = Append(@, response),
                                 !.chat_history =
                                     Append(@, [name |-> IF p = 0 THEN "P0" ELSE "P1",
                                                chat_message |-> response.chat]),
                                 !.trace = Append(@, new_state)]
    /\ UNCHANGED <<game_data, actions_collection, chat_collection,
                   summary_collection, result, previous>>

\* The loop ends on a final state and play_hand returns.
ReturnHand ==
    /\ pure.op = "play_hand"
    /\ pure.trace[Len(pure.trace)].final_state
    /\ pure' = [pure EXCEPT !.op = "play_hand returned"]
    /\ UNCHANGED <<game_data, actions_collection, chat_collection,
                   summary_collection, result, previous>>

NextHand ==
    \/ Turn
    \/ ReturnHand

SpecHand == InitHand /\ [][NextHand]_vars

HandCall == pure.op \in {"play_hand", "play_hand returned"}

\* C29: in every turn of play_hand the action of the agent's reply is the
\* action applied to the state: the k-th response is about the action that
\* led to the entry after the k-th of the trace, and its chat message
\* holds the name of that action.
C29_AnnouncedIsApplied ==
    HandCall =>
        /\ Len(pure.responses) = Len(pure.trace) - 1
        /\ \A k \in DOMAIN pure.responses :
              /\ pure.responses[k].action = pure.trace[k + 1].from_action
              /\ LowerName(pure.trace[k + 1].from_action.action)
                     \in pure.responses[k].chat.mentions

\* A hand of two turns, the second a raise announced by a message that
\* the completion wrote about other actions.
C29_Witness ==
    /\ HandCall
    /\ Len(pure.responses) = 2
    /\ pure.trace[3].from_action.action = "Raise"
    /\ pure.trace[3].from_action.amount > 0
    /\ pure.trace[2].from_action.action # "Raise"
    /\ "fold" \in pure.responses[2].chat.mentions

============================================================================
